---- MODULE Spec2Model ----
(***************************************************************************)
(* Verification model of bpurdy1/golang-packages.                          *)
(*                                                                         *)
(* Part 1: the real-estate financial core (package property / financing). *)
(* Part 2: the concurrency-limited wait group (package waitgroup).        *)
(* Part 3: the user store of auth-service and the transaction helper.     *)
(*                                                                         *)
(* Number representation.  The Go code mixes float64 and shopspring       *)
(* decimal.Decimal.  Every monetary amount is held here as an integer     *)
(* number of money units, Unit units to the dollar (Unit = 2^12 * 5^2, so *)
(* that halving and the 10/15/20/25/30 percent splits of the amounts used *)
(* are exact).  Interest rates are fixed-point with denominator RateScale,*)
(* discount rates of the IRR search with denominator IrrScale (so that    *)
(* all midpoints of the bracket [-0.99, 2.00] are exact).  A decimal      *)
(* division is modelled by an exact integer multiply-divide truncated to  *)
(* the unit of the result.                                                 *)
(***************************************************************************)
EXTENDS Integers, Sequences, FiniteSets, TLC

VARIABLES p, p0, before, last, prev, calls, irr, w, producer, tasks, waiters, store, callers

vars == <<p, p0, before, last, prev, calls, irr, w, producer, tasks, waiters, store, callers>>

----------------------------------------------------------------------------
(* Bounds of the model *)

MaxPriceIdx == 5
MaxUnits == 2
MaxCalls == 2

(* Fixed-point scales *)

Unit == (2 ^ 12) * 25
RateScale == 12 * (10 ^ 5)
IrrScale == (2 ^ 16) * 100
PctScale == 10 ^ 3
PercentScale == 10 ^ 2
MultScale == 10 ^ 2
GrowthScale == 10 ^ 2
NpvCap == 10 ^ 9
IntMax == (2 ^ 30) + ((2 ^ 30) - 1)

Dollars(n) == n * Unit

----------------------------------------------------------------------------
(* Exact integer helpers standing for decimal.Decimal arithmetic *)

AbsI(x) == IF x < 0 THEN 0 - x ELSE x

SignI(x) == IF x > 0 THEN 1 ELSE IF x < 0 THEN 0 - 1 ELSE 0

MinI(a, b) == IF a <= b THEN a ELSE b

MaxI(a, b) == IF a >= b THEN a ELSE b

(* the number of digits of b in the given base *)
RECURSIVE DigitLen(_, _)
DigitLen(b, base) == IF b = 0 THEN 0 ELSE 1 + DigitLen(b \div base, base)

(* s extended by the digit d of the multiplier: the quotient and the      *)
(* remainder of a * (base * m + d) by c from those of a * m               *)
MulDivDigit(s, d, a, c, base) ==
    [k |-> s.k - 1,
     q |-> (base * s.q + d * (a \div c)) + ((base * s.r + d * (a % c)) \div c),
     r |-> (base * s.r + d * (a % c)) % c]

(* quotient and remainder of a * b by c, by long multiplication of b in    *)
(* digits of the given base, the highest digit first; s.k digits are left *)
(* and s.q, s.r are the result for the digits above them.  Needs          *)
(* (2 * base - 1) * c <= IntMax.                                           *)
RECURSIVE MulDivLoop(_, _, _, _, _)
MulDivLoop(a, b, c, base, s) ==
    IF s.k = 0 THEN <<s.q, s.r>>
    ELSE MulDivLoop(a, b, c, base,
                    MulDivDigit(s, (b \div (base ^ (s.k - 1))) % base, a, c, base))

MulDivQR(a, b, c, base) ==
    MulDivLoop(a, b, c, base, [k |-> DigitLen(b, base), q |-> 0, r |-> 0])

(* the largest base among 256, 16, 8, 4, 2 that c allows *)
MulDivBase(c) ==
    IF c <= IntMax \div 511 THEN 256
    ELSE IF c <= IntMax \div 31 THEN 16
    ELSE IF c <= IntMax \div 15 THEN 8
    ELSE IF c <= IntMax \div 7 THEN 4
    ELSE 2

(* floor(a * b / c) for a, b >= 0 and c > 0, without leaving 32 bits *)
MulDivNat(a, b, c) ==
    IF a = 0 \/ b = 0 THEN 0
    ELSE IF b <= IntMax \div a THEN (a * b) \div c
    ELSE MulDivQR(MaxI(a, b), MinI(a, b), c, MulDivBase(c))[1]

(* a * b / c truncated toward zero, any signs, c # 0 *)
MulDiv(a, b, c) ==
    SignI(a) * SignI(b) * SignI(c) * MulDivNat(AbsI(a), AbsI(b), AbsI(c))

(* decimal.Decimal.Round(0): to whole dollars, half away from zero *)
Round0(x) == SignI(x) * (((AbsI(x) + (Unit \div 2)) \div Unit) * Unit)

(* Go's int64(float64): truncation toward zero, result in whole dollars *)
Int64(x) == SignI(x) * (AbsI(x) \div Unit)

RECURSIVE SumSeq(_)
SumSeq(s) == IF s = <<>> THEN 0 ELSE Head(s) + SumSeq(Tail(s))

----------------------------------------------------------------------------
(* package financing: LoanTerm, InterestRate, Loan *)

Term30Years == 0
Term20Years == 1
Term15Years == 2
Term10Years == 3

LoanTerms == {Term30Years, Term20Years, Term15Years, Term10Years}

(* LoanTerm.Years; any other value panics and is not drawn by the model *)
Years(lt) ==
    CASE lt = Term30Years -> 30
      [] lt = Term20Years -> 20
      [] lt = Term15Years -> 15
      [] lt = Term10Years -> 10

pointDevider == 100

(* NewInterestRate(percent): percent has denominator PercentScale; the    *)
(* result is the ratio percent / 100 with denominator RateScale.          *)
NewInterestRate(percent) == MulDiv(percent, RateScale, PercentScale * pointDevider)

(* LoanTerm.Years panics on a value that is none of the four constants *)
YearsPanics(lt) == lt \notin LoanTerms

(* NewLoan calls years.Years() before anything else *)
NewLoanPanics(years) == YearsPanics(years)

(* interestRate.String: "%g%%" of rate * 100, held as the digits printed  *)
(* before the percent sign: the whole part and, when there is one, the    *)
(* fraction as a numerator over RateScale                                  *)
String(ir) ==
    IF (ir * pointDevider) % RateScale = 0
    THEN <<(ir * pointDevider) \div RateScale, "%">>
    ELSE <<(ir * pointDevider) \div RateScale, (ir * pointDevider) % RateScale, "%">>

(* NewLoan(homePrice, downPayment int64, interestRate, years, tolerance) *)
NewLoan(homePrice, downPayment, interestRate, years) ==
    [HomePrice |-> homePrice,
     DownPayment |-> downPayment,
     InterestRate |-> NewInterestRate(interestRate),
     TermYears |-> Years(years)]

(* decimal Pow with an integer exponent, fixed-point with denominator     *)
(* RateScale, by squaring: h is the power for half the exponent           *)
PowStep(h, x, odd) ==
    MulDiv(MulDiv(h, h, RateScale), IF odd THEN x ELSE RateScale, RateScale)

(* the number of binary digits of n *)
RECURSIVE BitLen(_)
BitLen(n) == IF n = 0 THEN 0 ELSE 1 + BitLen(n \div 2)

(* s.acc is the power for the exponent made of the binary digits of n     *)
(* above the lowest s.k ones                                               *)
RECURSIVE PowLoop(_, _, _)
PowLoop(x, n, s) ==
    IF s.k = 0 THEN s.acc
    ELSE PowLoop(x, n, [k |-> s.k - 1,
                        acc |-> PowStep(s.acc, x, (n \div (2 ^ (s.k - 1))) % 2 = 1)])

Pow(x, n) == PowLoop(x, n, [k |-> BitLen(n), acc |-> RateScale])

(* r * P * (1+r)^n / ((1+r)^n - 1), where grow is (1+r)^n *)
PaymentWith(P, r, grow) ==
    MulDiv(MulDiv(MulDiv(r, P, RateScale), grow, RateScale), RateScale, grow - RateScale)

(* the payment on the principal P at the monthly rate r over n months *)
PaymentOf(P, r, n) ==
    IF r = 0 \/ n = 0 THEN 0 ELSE PaymentWith(P, r, Pow(RateScale + r, n))

(* Loan.MonthlyPayment, in money units (signed: negative for a negative principal) *)
MonthlyPayment(l) ==
    PaymentOf(Dollars(l.HomePrice - l.DownPayment), l.InterestRate \div 12, l.TermYears * 12)

(* Loan.LoanAmount, in money units *)
LoanAmount(l) == Dollars(l.HomePrice - l.DownPayment)

----------------------------------------------------------------------------
(* package property: Financial *)

DefaultDownPaymentPercent == 20

(* the defaults applied whatever the purchase price *)
Normalize_Unguarded(f) ==
    LET f1 == IF f.DownPayment = 0
              THEN [f EXCEPT !.DownPayment =
                        MulDiv(f.PurchasePrice, DefaultDownPaymentPercent, 100)]
              ELSE f
    IN IF f1.LoanAmount = 0
       THEN [f1 EXCEPT !.LoanAmount = f1.PurchasePrice - f1.DownPayment]
       ELSE f1

(* Financial.Normalize: the Financial block after the call *)
Normalize(f) ==
    LET f1 == IF f.DownPayment = 0 /\ f.PurchasePrice > 0
              THEN [f EXCEPT !.DownPayment =
                        MulDiv(f.PurchasePrice, DefaultDownPaymentPercent, 100)]
              ELSE f
    IN IF f1.LoanAmount = 0 /\ f1.PurchasePrice > 0
       THEN [f1 EXCEPT !.LoanAmount = f1.PurchasePrice - f1.DownPayment]
       ELSE f1

(* Financial.InterestRatePercent: basis points / 100, a percentage held   *)
(* with denominator PercentScale                                          *)
InterestRatePercent(f) == MulDiv(f.InterestRate, PercentScale, 100)

(* Financial.Loan: normalizes the receiver, then builds the loan from the *)
(* truncated price and down payment.  FinancialAfterLoan is the receiver  *)
(* as the call leaves it.                                                  *)
FinancialAfterLoan(f) == Normalize(f)

Loan(f) ==
    LET nf == FinancialAfterLoan(f)
    IN NewLoan(Int64(nf.PurchasePrice), Int64(nf.DownPayment),
               InterestRatePercent(nf), nf.LoanTermYears)

(* ExpensesMonthly.TotalMonthly / TotalYearly *)
TotalMonthly(e) ==
    e.Taxes + e.Insurance + e.Utilities + e.RepairsMaintenance +
    e.ManagementFee + e.OtherExpenses + e.CapitalReserves + e.PMI

TotalYearly(e) == TotalMonthly(e) * 12

(* Financial.SetLoanAmountPercentage(percentage), percentage in whole     *)
(* percent: panics before any assignment when the percentage is outside   *)
(* [0, 100], otherwise sets the loan amount to that share of the price    *)
SetLoanAmountPercentagePanics(percentage) == percentage < 0 \/ percentage > 100

SetLoanAmountPercentage(f, percentage) ==
    IF SetLoanAmountPercentagePanics(percentage) THEN f
    ELSE [f EXCEPT !.LoanAmount = MulDiv(f.PurchasePrice, percentage, 100)]

(* Financial.SetExpenses: replaces the whole expense block *)
SetExpenses(f, taxes, insurance, utilities, repairsMaintenance) ==
    [f EXCEPT !.Expenses =
        [Taxes |-> taxes, Insurance |-> insurance, PMI |-> 0,
         Utilities |-> utilities, RepairsMaintenance |-> repairsMaintenance,
         ManagementFee |-> 0, OtherExpenses |-> 0, CapitalReserves |-> 0,
         VacancyRate |-> 0]]

(* Property.WithDownPaymentPercent(percent): no check of the percentage *)
WithDownPaymentPercent(pp, percent) ==
    [pp EXCEPT !.Financial.DownPayment =
        MulDiv(pp.Financial.PurchasePrice, percent, 100)]

(* sum of unit.Rent over p.Units *)
RECURSIVE SumRent(_)
SumRent(units) ==
    IF units = <<>> THEN 0 ELSE Head(units).Rent + SumRent(Tail(units))

----------------------------------------------------------------------------
(* package property: AnalyzeCashFlow *)

(* a.Div(b) scaled by scale; the Go call panics when b is zero, which the *)
(* model records in the Panicked field of the result it belongs to        *)
Quot(a, scale, b) == IF b = 0 THEN 0 ELSE MulDiv(a, scale, b)

(* the guard written with GreaterThanOrEqual *)
Positive_OrZero(x) == x >= 0

(* decimal.Decimal.GreaterThan(decimal.Zero), the guard of every ratio *)
Positive(x) == x > 0

(* the income, expense, mortgage and cash-flow amounts of the analysis    *)
(* (cashflow.go lines 52-76)                                               *)
CashFlowAmounts(MonthlyGrossIncome, e, MonthlyMortgage) ==
    [MonthlyGrossIncome |-> MonthlyGrossIncome,
     AnnualGrossIncome |-> MonthlyGrossIncome * 12,
     MonthlyExpenses |-> TotalMonthly(e),
     AnnualExpenses |-> TotalYearly(e),
     MonthlyNOI |-> MonthlyGrossIncome - TotalMonthly(e),
     AnnualNOI |-> (MonthlyGrossIncome * 12) - TotalYearly(e),
     MonthlyMortgage |-> MonthlyMortgage,
     AnnualMortgage |-> MonthlyMortgage * 12,
     MonthlyCashFlow |-> (MonthlyGrossIncome - TotalMonthly(e)) - MonthlyMortgage,
     AnnualCashFlow |-> ((MonthlyGrossIncome * 12) - TotalYearly(e)) - (MonthlyMortgage * 12)]

(* the investment details and the guarded ratios (cashflow.go lines       *)
(* 78-104), added to the amounts a; fin is p.Financial after Loan()       *)
CashFlowMetrics(a, fin) ==
    a @@
    [PurchasePrice |-> fin.PurchasePrice,
     DownPayment |-> fin.DownPayment,
     LoanAmount |-> fin.LoanAmount,
     InterestRate |-> InterestRatePercent(fin),
     LoanTermYears |-> Years(fin.LoanTermYears),
     TotalInvestment |-> fin.DownPayment,
     CapRate |-> IF Positive(fin.PurchasePrice)
                 THEN Quot(a.AnnualNOI, 100 * PctScale, fin.PurchasePrice) ELSE 0,
     CashOnCash |-> IF Positive(fin.DownPayment)
                    THEN Quot(a.AnnualCashFlow, 100 * PctScale, fin.DownPayment) ELSE 0,
     GRM |-> IF Positive(a.AnnualGrossIncome)
             THEN Quot(fin.PurchasePrice, PctScale, a.AnnualGrossIncome) ELSE 0,
     BreakEvenRatio |-> IF Positive(a.AnnualGrossIncome)
                        THEN Quot(a.AnnualExpenses + a.AnnualMortgage, 100 * PctScale,
                                  a.AnnualGrossIncome)
                        ELSE 0,
     DSCR |-> IF Positive(a.AnnualMortgage)
              THEN Quot(a.AnnualNOI, PctScale, a.AnnualMortgage) ELSE 0,
     Panicked |-> \/ (Positive(fin.PurchasePrice) /\ fin.PurchasePrice = 0)
                  \/ (Positive(fin.DownPayment) /\ fin.DownPayment = 0)
                  \/ (Positive(a.AnnualGrossIncome) /\ a.AnnualGrossIncome = 0)
                  \/ (Positive(a.AnnualMortgage) /\ a.AnnualMortgage = 0)]

(* AnalyzeCashFlow(p): the analysis record; p.Financial is normalized on  *)
(* the way by the call of Financial.Loan (see PropertyAfterCashFlow)      *)
AnalyzeCashFlow(pp) ==
    CashFlowMetrics(CashFlowAmounts(SumRent(pp.Units), pp.Financial.Expenses,
                                    AbsI(MonthlyPayment(Loan(pp.Financial)))),
                    FinancialAfterLoan(pp.Financial))

(* AnalyzeCashFlow working on a copy of p.Financial *)
PropertyAfterCashFlow_Copy(pp) == pp

(* the property as AnalyzeCashFlow leaves it *)
PropertyAfterCashFlow(pp) ==
    [pp EXCEPT !.Financial = FinancialAfterLoan(pp.Financial)]

(* CashFlowAnalysis.IsCashFlowPositive *)
IsCashFlowPositive(a) == a.MonthlyCashFlow > 0


----------------------------------------------------------------------------
(* package property: scenarios *)

(* the derived property analyzeScenario builds: fresh Financial and Unit  *)
(* structs carrying the overrides; RentMultiplier has denominator         *)
(* MultScale                                                               *)
ModifiedProperty(pp, scenario) ==
    [Units |-> [i \in 1..Len(pp.Units) |->
                   [Rent |-> MulDiv(pp.Units[i].Rent, scenario.RentMultiplier, MultScale)]],
     Financial |->
        [AskingPrice |-> pp.Financial.AskingPrice,
         PurchasePrice |-> pp.Financial.PurchasePrice,
         DownPayment |-> scenario.DownPayment,
         LoanAmount |-> pp.Financial.PurchasePrice - scenario.DownPayment,
         InterestRate |-> scenario.InterestRate,
         LoanTermYears |-> scenario.LoanTerm,
         Expenses |-> pp.Financial.Expenses]]

(* the ScenarioResult built from the analysis of the modified property *)
ScenarioResult(scenario, analysis) ==
    [Scenario |-> scenario,
     MonthlyCashFlow |-> analysis.MonthlyCashFlow,
     AnnualCashFlow |-> analysis.AnnualCashFlow,
     CashOnCash |-> analysis.CashOnCash,
     CapRate |-> analysis.CapRate,
     IsPositive |-> IsCashFlowPositive(analysis),
     Panicked |-> analysis.Panicked]

(* analyzeScenario(p, scenario) *)
analyzeScenario(pp, scenario) ==
    ScenarioResult(scenario, AnalyzeCashFlow(ModifiedProperty(pp, scenario)))

(* analyzeScenario writing the overrides into the base property *)
PropertyAfterScenario_Aliased(pp, scenario) ==
    [pp EXCEPT !.Financial = FinancialAfterLoan(ModifiedProperty(pp, scenario).Financial)]

(* the base property as analyzeScenario leaves it: every write of the     *)
(* call, Normalize included, goes to the structs built for the copy       *)
PropertyAfterScenario(pp, scenario) == pp

(* CompareScenarios(p, scenarios): one result per scenario, in order *)
CompareScenarios(pp, scenarios) ==
    [i \in 1..Len(scenarios) |-> analyzeScenario(pp, scenarios[i])]

RECURSIVE PropertyAfterCompare(_, _)
PropertyAfterCompare(pp, scenarios) ==
    IF scenarios = <<>> THEN pp
    ELSE PropertyAfterCompare(PropertyAfterScenario(pp, Head(scenarios)), Tail(scenarios))

(* FindBreakEvenRent(p); reads the mortgage through Financial.Loan *)
FindBreakEvenRent(pp) ==
    IF Len(pp.Units) = 0 THEN 0
    ELSE LET expenses == TotalMonthly(pp.Financial.Expenses)
             mortgage == AbsI(MonthlyPayment(Loan(pp.Financial)))
         IN Quot(expenses + mortgage, 1, Len(pp.Units))

PropertyAfterBreakEvenRent(pp) ==
    IF Len(pp.Units) = 0 THEN pp
    ELSE [pp EXCEPT !.Financial = FinancialAfterLoan(pp.Financial)]

(* the sentinel decimal.NewFromInt(-1) and the $100 tolerance *)
Sentinel == 0 - Dollars(1)

(* a search that stops at a bracket three times as wide *)
tolerance_Wide == Dollars(300)

tolerance == Dollars(100)

(* the scenario FindBreakEvenDownPayment tests at a midpoint *)
TestScenario(pp, mid) ==
    [DownPayment |-> mid,
     InterestRate |-> pp.Financial.InterestRate,
     LoanTerm |-> pp.Financial.LoanTermYears,
     RentMultiplier |-> MultScale]

(* the binary-search loop of FindBreakEvenDownPayment; evals counts the   *)
(* calls of analyzeScenario                                                *)
(* One pass of the binary search.  s holds the values of the loop: the    *)
(* property as the passes so far leave it, low, high and the number of    *)
(* scenarios evaluated; result is the ScenarioResult at mid.              *)
BreakEvenKeep(s, mid, result) ==
    [pp |-> PropertyAfterScenario(s.pp, TestScenario(s.pp, mid)),
     low |-> IF result.IsPositive THEN s.low ELSE mid,
     high |-> IF result.IsPositive THEN mid ELSE s.high,
     evals |-> s.evals + 1]

BreakEvenStep(s) ==
    BreakEvenKeep(s, (s.low + s.high) \div 2,
                  analyzeScenario(s.pp, TestScenario(s.pp, (s.low + s.high) \div 2)))

RECURSIVE BreakEvenLoop(_)
BreakEvenLoop(s) ==
    IF s.high - s.low > tolerance THEN BreakEvenLoop(BreakEvenStep(s)) ELSE s

(* what the search returns, with the final bracket, the number of         *)
(* scenarios evaluated and the property as the call leaves it             *)
BreakEvenResult(s) ==
    [Value |-> Round0(s.high), Low |-> s.low, High |-> s.high, Evals |-> s.evals,
     After |-> s.pp]

(* the sentinel test written with < instead of <= *)
FindBreakEvenDownPayment_Strict(pp) ==
    IF SumRent(pp.Units) - TotalMonthly(pp.Financial.Expenses) < 0
    THEN [Value |-> Sentinel, Low |-> 0, High |-> 0, Evals |-> 0, After |-> pp]
    ELSE BreakEvenResult(BreakEvenLoop([pp |-> pp, low |-> 0,
                                        high |-> pp.Financial.PurchasePrice,
                                        evals |-> 0]))

(* FindBreakEvenDownPayment(p) *)
FindBreakEvenDownPayment(pp) ==
    IF SumRent(pp.Units) - TotalMonthly(pp.Financial.Expenses) <= 0
    THEN [Value |-> Sentinel, Low |-> 0, High |-> 0, Evals |-> 0, After |-> pp]
    ELSE BreakEvenResult(BreakEvenLoop([pp |-> pp, low |-> 0,
                                        high |-> pp.Financial.PurchasePrice,
                                        evals |-> 0]))

(* GenerateDownPaymentScenarios(p, percentages) *)
GenerateDownPaymentScenarios(pp, percentages) ==
    [i \in 1..Len(percentages) |->
        [DownPayment |-> MulDiv(pp.Financial.PurchasePrice, percentages[i], 100),
         InterestRate |-> pp.Financial.InterestRate,
         LoanTerm |-> pp.Financial.LoanTermYears,
         RentMultiplier |-> MultScale]]


----------------------------------------------------------------------------
(* package property: multi-year projections *)

(* DefaultProjectionConfig; the rates have denominator GrowthScale *)
DefaultProjectionConfig ==
    [Years |-> 10,
     RentGrowthRate |-> 3,
     ExpenseGrowthRate |-> 2,
     AppreciationRate |-> 0,
     VacancyRate |-> 5]

(* One row of the amortization schedule (gofinancial, section 4.1 of the  *)
(* specification): interest on the running balance, principal = payment   *)
(* - interest, balance reduced by the principal.  s holds the number of   *)
(* rows so far, the balance after them and the sum of their |principal|.  *)
ScheduleRow(s, M, r) ==
    LET interest == MulDiv(s.balance, r, RateScale)
        principal == M - interest
    IN [rows |-> s.rows + 1,
        balance |-> s.balance - principal,
        paid |-> s.paid + AbsI(principal)]

(* the schedule continued from s through its row number n *)
RECURSIVE ScheduleRows(_, _, _, _)
ScheduleRows(s, M, r, n) ==
    IF s.rows >= n THEN s ELSE ScheduleRows(ScheduleRow(s, M, r), M, r, n)

(* Loan.AmortizationSchedule: number of rows of the schedule *)
ScheduleLen(l) == l.TermYears * 12

(* the growth applied in the first year as well *)
Grow_FromFirstYear(v, rate, year) == MulDiv(v, GrowthScale + rate, GrowthScale)

(* a running value of the loop, grown from the second year on *)
Grow(v, rate, year) ==
    IF year > 1 THEN MulDiv(v, GrowthScale + rate, GrowthScale) ELSE v

(* the schedule totals through the last row of the year, while the        *)
(* schedule has a row for it                                               *)
ScheduleThrough(ctx, year, sched) ==
    IF (year * 12) - 1 < ctx.scheduleLen
    THEN ScheduleRows(sched, ctx.payment, ctx.monthlyRate, year * 12)
    ELSE sched

(* proj.LoanBalance: from the schedule, else the linear estimate *)
LoanBalanceOf(ctx, year, sched) ==
    IF (year * 12) - 1 < ctx.scheduleLen THEN ctx.initialLoanAmount - sched.paid
    ELSE IF ctx.termYears - year > 0
         THEN MulDiv(ctx.initialLoanAmount, ctx.termYears - year, ctx.termYears)
         ELSE 0

(* The body of the loop of ProjectCashFlow for one year, given the grown  *)
(* rent, expenses and property value, the vacancy loss, the schedule      *)
(* totals and the loan balance of the year: the loop's values after it    *)
(* (s before it), the projection appended to acc.                          *)
YearlyProjection(ctx, year, s, currentRent, currentExpenses, currentPropertyValue, VacancyLoss, sched, LoanBalance) ==
    LET NOI == (currentRent - VacancyLoss) - currentExpenses
        CashFlow == NOI - ctx.annualMortgage
        cumulativeCashFlow == s.cumulativeCashFlow + CashFlow
        PrincipalPaid == IF (year * 12) - 1 < ctx.scheduleLen THEN sched.paid
                         ELSE ctx.initialLoanAmount - LoanBalance
    IN [year |-> year + 1,
        currentRent |-> currentRent,
        currentExpenses |-> currentExpenses,
        currentPropertyValue |-> currentPropertyValue,
        cumulativeCashFlow |-> cumulativeCashFlow,
        sched |-> sched,
        acc |-> Append(s.acc,
                  [Year |-> year,
                   GrossIncome |-> currentRent,
                   VacancyLoss |-> VacancyLoss,
                   EffectiveIncome |-> currentRent - VacancyLoss,
                   Expenses |-> currentExpenses,
                   NOI |-> NOI,
                   MortgagePayment |-> ctx.annualMortgage,
                   CashFlow |-> CashFlow,
                   CumulativeCF |-> cumulativeCashFlow,
                   PropertyValue |-> currentPropertyValue,
                   LoanBalance |-> LoanBalance,
                   PrincipalPaid |-> PrincipalPaid,
                   Equity |-> ctx.downPayment + PrincipalPaid,
                   EquityAtSale |-> currentPropertyValue - LoanBalance,
                   TotalReturn |-> cumulativeCashFlow + PrincipalPaid,
                   CashOnCash |-> IF Positive(ctx.downPayment)
                                  THEN Quot(CashFlow, 100 * PctScale, ctx.downPayment)
                                  ELSE 0,
                   Panicked |-> Positive(ctx.downPayment) /\ ctx.downPayment = 0])]

YearWithRent(ctx, config, s, currentRent, sched) ==
    YearlyProjection(ctx, s.year, s, currentRent,
                     Grow(s.currentExpenses, config.ExpenseGrowthRate, s.year),
                     Grow(s.currentPropertyValue, config.AppreciationRate, s.year),
                     MulDiv(currentRent, config.VacancyRate, GrowthScale),
                     sched, LoanBalanceOf(ctx, s.year, sched))

YearStep(ctx, config, s) ==
    YearWithRent(ctx, config, s,
                 Grow(s.currentRent, config.RentGrowthRate, s.year),
                 ScheduleThrough(ctx, s.year, s.sched))

(* the loop of ProjectCashFlow from the year s.year on *)
RECURSIVE ProjectYears(_, _, _)
ProjectYears(ctx, config, s) ==
    IF s.year > config.Years THEN s.acc
    ELSE ProjectYears(ctx, config, YearStep(ctx, config, s))

(* ProjectCashFlow once the loan, the normalized Financial and the        *)
(* monthly payment are known; downPayment was read before the call of     *)
(* Financial.Loan, the loan amount is read after it                       *)
ProjectWith(pp, config, loan, fin, payment) ==
    ProjectYears([downPayment |-> pp.Financial.DownPayment,
                  annualMortgage |-> payment * 12,
                  payment |-> payment,
                  monthlyRate |-> loan.InterestRate \div 12,
                  scheduleLen |-> ScheduleLen(loan),
                  termYears |-> Years(pp.Financial.LoanTermYears),
                  initialLoanAmount |-> fin.LoanAmount],
                 config,
                 [year |-> 1,
                  currentRent |-> SumRent(pp.Units) * 12,
                  currentExpenses |-> TotalYearly(pp.Financial.Expenses),
                  currentPropertyValue |-> pp.Financial.PurchasePrice,
                  cumulativeCashFlow |-> 0,
                  sched |-> [rows |-> 0, balance |-> AbsI(LoanAmount(loan)), paid |-> 0],
                  acc |-> <<>>])

(* ProjectCashFlow(p, config) *)
ProjectCashFlow(pp, config) ==
    ProjectWith(pp, config, Loan(pp.Financial), FinancialAfterLoan(pp.Financial),
                AbsI(MonthlyPayment(Loan(pp.Financial))))

PropertyAfterProject(pp) ==
    [pp EXCEPT !.Financial = FinancialAfterLoan(pp.Financial)]


----------------------------------------------------------------------------
(* package property: IRR *)

(* x clamped to [-NpvCap, NpvCap] *)
Clamp(x) == IF x > NpvCap THEN NpvCap ELSE IF x < 0 - NpvCap THEN 0 - NpvCap ELSE x

(* x / (1 + rate), rate with denominator IrrScale; a quotient beyond      *)
(* NpvCap in magnitude is reported as +-NpvCap                            *)
Discount(x, rate) ==
    LET c == IrrScale + rate
    IN IF AbsI(x) \div c >= NpvCap \div IrrScale
       THEN SignI(x) * NpvCap
       ELSE Clamp(MulDiv(x, IrrScale, c))

(* calculateNPV(cashFlows, rate) = sum of cashFlows[i] / (1 + rate)^i,    *)
(* evaluated from the last term inwards: s.npv is the value of the terms  *)
(* s.i.. of the sum, divided by (1 + rate)^(s.i - 1).  Indices are        *)
(* 1-based, so cashFlows[1] is the initial investment.                     *)
RECURSIVE NpvFrom(_, _, _)
NpvFrom(cashFlows, rate, s) ==
    IF s.i = 1 THEN s.npv
    ELSE NpvFrom(cashFlows, rate,
                 [i |-> s.i - 1,
                  npv |-> Clamp(cashFlows[s.i - 1] + Discount(s.npv, rate))])

calculateNPV(cashFlows, rate) ==
    NpvFrom(cashFlows, rate, [i |-> Len(cashFlows), npv |-> cashFlows[Len(cashFlows)]])

(* the bracket and the tolerance of the bisection *)
IrrLow == 0 - ((99 * IrrScale) \div 100)
IrrHigh == 2 * IrrScale
IrrMaxIter == 100

(* x < tolerance (0.0001) for a value x of the given denominator *)
(* a tolerance of 0.00001 *)
LessThanTolerance_Fine(x, scale) == x <= (scale - 1) \div 100000

(* x.LessThan(tolerance) for the tolerance 0.0001, x having denominator scale *)
LessThanTolerance(x, scale) == x <= (scale - 1) \div 10000

(* mid * 100, the percentage returned, with denominator PctScale *)
AsPercent(rate) == MulDiv(rate, 100 * PctScale, IrrScale)

(* what CalculateIRR returns from the loop: 100 * mid, with the bracket,  *)
(* the NPV at mid and the number of iterations run                         *)
BisectResult(kind, mid, low, high, npvMid, iterations) ==
    [Value |-> AsPercent(mid), Kind |-> kind, Mid |-> mid, Low |-> low, High |-> high,
     NpvMid |-> npvMid, Iterations |-> iterations, Panicked |-> FALSE]

(* the body of the loop with the two halves of the bracket exchanged *)
BisectAt_Swapped(s, mid, npvMid) ==
    IF LessThanTolerance(AbsI(npvMid), Unit)
       \/ LessThanTolerance(AbsI(s.high - s.low), IrrScale)
    THEN [s EXCEPT !.returned = TRUE,
                   !.out = BisectResult("bisect", mid, s.low, s.high, npvMid, s.i + 1)]
    ELSE IF SignI(npvMid) = SignI(s.npvLow)
         THEN [s EXCEPT !.high = mid, !.i = s.i + 1]
         ELSE [s EXCEPT !.low = mid, !.npvLow = npvMid, !.i = s.i + 1]

(* The body of the bisection loop at the midpoint mid, whose NPV is       *)
(* npvMid.  s holds the values of the loop: low, high, npvLow, the        *)
(* iteration counter i, and the result once the loop has returned.        *)
BisectAt(s, mid, npvMid) ==
    IF LessThanTolerance(AbsI(npvMid), Unit)
       \/ LessThanTolerance(AbsI(s.high - s.low), IrrScale)
    THEN [s EXCEPT !.returned = TRUE,
                   !.out = BisectResult("bisect", mid, s.low, s.high, npvMid, s.i + 1)]
    ELSE IF SignI(npvMid) = SignI(s.npvLow)
         THEN [s EXCEPT !.low = mid, !.npvLow = npvMid, !.i = s.i + 1]
         ELSE [s EXCEPT !.high = mid, !.i = s.i + 1]

(* one pass of the loop, or the midpoint returned after its last pass *)
BisectStep(cashFlows, s) ==
    IF s.i < IrrMaxIter
    THEN BisectAt(s, (s.low + s.high) \div 2,
                  calculateNPV(cashFlows, (s.low + s.high) \div 2))
    ELSE [s EXCEPT !.returned = TRUE,
                   !.out = BisectResult("cap", (s.low + s.high) \div 2, s.low, s.high, 0, s.i)]

(* the bisection loop of CalculateIRR *)
RECURSIVE Bisect(_, _)
Bisect(cashFlows, s) ==
    IF s.returned THEN s.out ELSE Bisect(cashFlows, BisectStep(cashFlows, s))

IrrZero ==
    [Value |-> 0, Kind |-> "zero", Mid |-> 0, Low |-> 0, High |-> 0, NpvMid |-> 0,
     Iterations |-> 0, Panicked |-> FALSE]

(* the cash-flow vector without the sale proceeds in its last entry *)
CashFlows_NoSale(downPayment, projections, holdingYears) ==
    [i \in 1..(holdingYears + 1) |->
        IF i = 1 THEN 0 - downPayment ELSE projections[i - 1].CashFlow]

(* the cash-flow vector CalculateIRR builds *)
CashFlows(downPayment, projections, holdingYears) ==
    [i \in 1..(holdingYears + 1) |->
        IF i = 1 THEN 0 - downPayment
        ELSE IF i = holdingYears + 1
             THEN projections[holdingYears].CashFlow + projections[holdingYears].EquityAtSale
             ELSE projections[i - 1].CashFlow]

(* the rough estimate returned when the NPV does not change sign *)
IrrEstimate(cashFlows, downPayment, holdingYears) ==
    [Value |-> Quot(Quot(SumSeq(cashFlows), PctScale, downPayment), 1, holdingYears) * 100,
     Kind |-> "fallback", Mid |-> 0, Low |-> IrrLow, High |-> IrrHigh, NpvMid |-> 0,
     Iterations |-> 0, Panicked |-> downPayment = 0 \/ holdingYears = 0]

(* CalculateIRR from the sign check on, npvLow and npvHigh being the NPV  *)
(* at the two ends of the initial bracket                                  *)
IrrFrom(cashFlows, downPayment, holdingYears, npvLow, npvHigh) ==
    IF SignI(npvLow) = SignI(npvHigh)
    THEN IrrEstimate(cashFlows, downPayment, holdingYears)
    ELSE Bisect(cashFlows, [low |-> IrrLow, high |-> IrrHigh, npvLow |-> npvLow,
                            i |-> 0, returned |-> FALSE, out |-> IrrZero])

IrrOf(cashFlows, downPayment, holdingYears) ==
    IrrFrom(cashFlows, downPayment, holdingYears,
            calculateNPV(cashFlows, IrrLow), calculateNPV(cashFlows, IrrHigh))

(* CalculateIRR(p, projections, holdingYears) *)
CalculateIRR(pp, projections, holdingYears) ==
    IF Len(projections) = 0 \/ holdingYears > Len(projections) THEN IrrZero
    ELSE IF pp.Financial.DownPayment = 0 THEN IrrZero
    ELSE IrrOf(CashFlows(pp.Financial.DownPayment, projections, holdingYears),
               pp.Financial.DownPayment, holdingYears)

----------------------------------------------------------------------------
(* package property: the full analysis *)

ScenarioPercentages == <<10, 15, 20, 25, 30>>

(* the FullAnalysis record; Panicked tells whether a division by zero     *)
(* was met on the way                                                       *)
FullAnalysis(pp, cashFlow, breakEvenRent, breakEvenDown, results, projections, five, ten) ==
    [Units |-> [i \in 1..Len(pp.Units) |-> [Rent |-> pp.Units[i].Rent]],
     CashFlow |-> cashFlow,
     BreakEven |-> [BreakEvenRentPerUnit |-> breakEvenRent,
                    BreakEvenDownPayment |-> breakEvenDown.Value,
                    CanBreakEven |-> breakEvenDown.Value > 0],
     Scenarios |-> results,
     Projections |-> projections,
     IRR |-> [FiveYearIRR |-> five.Value,
              TenYearIRR |-> ten.Value,
              HoldingYears |-> IF Len(projections) >= 5 THEN Len(projections) ELSE 0],
     Panicked |-> \/ cashFlow.Panicked
                  \/ \E i \in 1..Len(results) : results[i].Panicked
                  \/ \E i \in 1..Len(projections) : projections[i].Panicked
                  \/ five.Panicked
                  \/ ten.Panicked]

(* the 10-year IRR asked over ten years however many are projected *)
AnalysisFromProjections_TenOnly(pp, cashFlow, breakEvenRent, breakEvenDown, results, projections, p4) ==
    [Result |-> FullAnalysis(pp, cashFlow, breakEvenRent, breakEvenDown, results, projections,
                    IF Len(projections) >= 5
                    THEN CalculateIRR(p4, projections, 5) ELSE IrrZero,
                    IF Len(projections) >= 5
                    THEN CalculateIRR(p4, projections, 10)
                    ELSE IrrZero),
     After |-> p4]

(* AnalyzeWithConfig step by step, each step given the results of the     *)
(* steps before it and the property as they leave it (p1, p3, p4): the    *)
(* FullAnalysis returned (Result) and the property after the call (After) *)
AnalysisFromProjections(pp, cashFlow, breakEvenRent, breakEvenDown, results, projections, p4) ==
    [Result |-> FullAnalysis(pp, cashFlow, breakEvenRent, breakEvenDown, results, projections,
                    IF Len(projections) >= 5
                    THEN CalculateIRR(p4, projections, 5) ELSE IrrZero,
                    IF Len(projections) >= 5
                    THEN CalculateIRR(p4, projections, MinI(10, Len(projections)))
                    ELSE IrrZero),
     After |-> p4]

AnalysisFromScenarios(pp, projConfig, cashFlow, breakEvenRent, breakEvenDown, results, p3) ==
    AnalysisFromProjections(pp, cashFlow, breakEvenRent, breakEvenDown, results,
                            ProjectCashFlow(p3, projConfig), PropertyAfterProject(p3))

AnalysisFromBreakEven(pp, projConfig, cashFlow, breakEvenRent, breakEvenDown) ==
    AnalysisFromScenarios(pp, projConfig, cashFlow, breakEvenRent, breakEvenDown,
        CompareScenarios(breakEvenDown.After,
            GenerateDownPaymentScenarios(breakEvenDown.After, ScenarioPercentages)),
        PropertyAfterCompare(breakEvenDown.After,
            GenerateDownPaymentScenarios(breakEvenDown.After, ScenarioPercentages)))

AnalysisFromCashFlow(pp, projConfig, cashFlow, p1) ==
    AnalysisFromBreakEven(pp, projConfig, cashFlow, FindBreakEvenRent(p1),
                          FindBreakEvenDownPayment(PropertyAfterBreakEvenRent(p1)))

(* AnalyzeWithConfig(p, projConfig) *)
AnalyzeWithConfig(pp, projConfig) ==
    AnalysisFromCashFlow(pp, projConfig, AnalyzeCashFlow(pp), PropertyAfterCashFlow(pp))

(* Analyze(p), and p as the call leaves it *)
Analyze(pp) == AnalyzeWithConfig(pp, DefaultProjectionConfig).Result

PropertyAfterAnalyze(pp) == AnalyzeWithConfig(pp, DefaultProjectionConfig).After

----------------------------------------------------------------------------
(* The properties the model starts from, as the builder of package        *)
(* property can set them up (New, AddUnit, Purchase, Loan,                *)
(* WithDownPayment, Expenses, SetFinancials)                               *)

MaxRateIdx == 1
HalfDollar == Unit \div 2

PriceOf(i) == Dollars(200 * i) + (i % 2) * HalfDollar
RentOf(k) == IF k % 2 = 1 THEN Dollars(10) + 512 ELSE Dollars(3)
RateOf(i) == 600 * i

Prices == {PriceOf(i) : i \in 0..MaxPriceIdx}
UnitLists == {[k \in 1..n |-> [Rent |-> RentOf(k)]] : n \in 0..MaxUnits}
Rates == {RateOf(i) : i \in 0..MaxRateIdx}
Terms == {Term30Years, Term10Years}
TaxesSet == {0, Dollars(10)}

NoExpenses ==
    [Taxes |-> 0, Insurance |-> 0, PMI |-> 0, Utilities |-> 0,
     RepairsMaintenance |-> 0, ManagementFee |-> 0, OtherExpenses |-> 0,
     CapitalReserves |-> 0, VacancyRate |-> 0]

(* down payment unset, or a quarter of the price (WithDownPaymentPercent); *)
(* loan amount unset, or price - down payment as NewFinancial computes it *)
DownLoanChoices(price) ==
    {<<0, 0>>, <<price \div 4, 0>>, <<price \div 4, price - (price \div 4)>>}

Financials ==
    {[AskingPrice |-> price, PurchasePrice |-> price, DownPayment |-> c[1],
      LoanAmount |-> c[2], InterestRate |-> rate, LoanTermYears |-> term,
      Expenses |-> [NoExpenses EXCEPT !.Taxes = taxes]] :
        <<price, c>> \in UNION {{<<q, d>> : d \in DownLoanChoices(q)} : q \in Prices},
        rate \in Rates, term \in Terms, taxes \in TaxesSet}

Properties == {[Units |-> u, Financial |-> f] : u \in UnitLists, f \in Financials}

(* the scenarios the model passes to CompareScenarios: the property's own *)
(* rate, term and rents at several down payments, and one scenario that   *)
(* overrides rate, term and rents                                          *)
ProbeDownPayments(pp) ==
    {0, Dollars(1), pp.Financial.PurchasePrice \div 2, pp.Financial.PurchasePrice}

ScenarioPool(pp) ==
    {TestScenario(pp, d) : d \in ProbeDownPayments(pp)}
    \cup {[DownPayment |-> pp.Financial.PurchasePrice \div 4,
           InterestRate |-> pp.Financial.InterestRate + 600,
           LoanTerm |-> Term15Years,
           RentMultiplier |-> 150]}

(* the projection configs the model passes to ProjectCashFlow: growth     *)
(* rates of 0, 50 and 100 percent, under which every amount of the model  *)
(* stays exact, over one and three years, and eleven years without growth *)
(* (one year more than the shortest loan term)                             *)
ProjectionYears == {1, 3}
GrowthChoices == {<<50, 100, 0>>, <<0, 50, 50>>}

ProjectionConfigs ==
    {[Years |-> y, RentGrowthRate |-> g[1], ExpenseGrowthRate |-> g[2],
      AppreciationRate |-> g[3], VacancyRate |-> DefaultProjectionConfig.VacancyRate] :
        y \in ProjectionYears, g \in GrowthChoices}
    \cup {[Years |-> Years(Term10Years) + 1, RentGrowthRate |-> 0, ExpenseGrowthRate |-> 0,
            AppreciationRate |-> 0, VacancyRate |-> DefaultProjectionConfig.VacancyRate]}

----------------------------------------------------------------------------
(* State machine: a caller holding one property p and calling the entry   *)
(* points of package property on it.  before is p as it was when the last *)
(* call was made, last the last call and what it returned, prev the       *)
(* result of the call before it when that was a full analysis.            *)

NoCall == [op |-> "none"]

(* no wait group is in use in the state machines of the financial core *)
NoWaitGroup ==
    /\ w = [op |-> "none"]
    /\ producer = [op |-> "none"]
    /\ tasks = <<>>
    /\ waiters = <<>>

(* no store is in use outside the state machine of auth-service *)
NoStore ==
    /\ store = [op |-> "none"]
    /\ callers = <<>>

IrrIdle == [op |-> "none"]

Init ==
    /\ p \in Properties
    /\ p0 = p
    /\ before = p
    /\ last = NoCall
    /\ prev = NoCall
    /\ calls = 0
    /\ irr = IrrIdle
    /\ NoWaitGroup
    /\ NoStore

Called(op, out, after) ==
    /\ calls' = calls + 1
    /\ before' = p
    /\ prev' = IF last.op = "Analyze" THEN last ELSE NoCall
    /\ last' = [op |-> op, out |-> out]
    /\ p' = after
    /\ UNCHANGED <<p0, irr, w, producer, tasks, waiters, store, callers>>

CallAnalyzeCashFlow ==
    /\ calls = 0
    /\ Called("AnalyzeCashFlow", AnalyzeCashFlow(p), PropertyAfterCashFlow(p))

(* the full analysis, which the caller may run again on the same property *)
CallAnalyze ==
    /\ calls = 0 \/ (last.op = "Analyze" /\ calls < MaxCalls)
    /\ Called("Analyze", Analyze(p), PropertyAfterAnalyze(p))

CallCompareScenarios ==
    /\ calls = 0
    /\ \E s1 \in ScenarioPool(p) : \E s2 \in ScenarioPool(p) :
          /\ s1.DownPayment <= s2.DownPayment
          /\ Called("CompareScenarios", CompareScenarios(p, <<s1, s2>>),
                    PropertyAfterCompare(p, <<s1, s2>>))

CallFindBreakEvenDownPayment ==
    /\ calls = 0
    /\ Called("FindBreakEvenDownPayment", FindBreakEvenDownPayment(p),
              FindBreakEvenDownPayment(p).After)

CallProjectCashFlow ==
    /\ calls = 0
    /\ \E config \in ProjectionConfigs :
          Called("ProjectCashFlow",
                 [Config |-> config, Rows |-> ProjectCashFlow(p, config)],
                 PropertyAfterProject(p))

(* the full analysis under a config that projects fewer than five years,  *)
(* between five and ten, and more than ten                                 *)
AnalysisConfigs == {[DefaultProjectionConfig EXCEPT !.Years = y] : y \in {4, 7, 12}}

CallAnalyzeWithConfig ==
    /\ calls = 0
    /\ \E config \in AnalysisConfigs :
          Called("AnalyzeWithConfig", AnalyzeWithConfig(p, config).Result,
                 AnalyzeWithConfig(p, config).After)

Next ==
    \/ CallAnalyzeCashFlow
    \/ CallAnalyze
    \/ CallAnalyzeWithConfig
    \/ CallCompareScenarios
    \/ CallFindBreakEvenDownPayment
    \/ CallProjectCashFlow

Spec == Init /\ [][Next]_vars

----------------------------------------------------------------------------
(* State machine of the IRR solver alone: CalculateIRR applied to         *)
(* projections and holding periods drawn from bounded sets                 *)

MaxIrrYears == 2

IrrCashFlows == {0 - Dollars(3), 0, Dollars(50) + HalfDollar, Dollars(301)}
IrrEquities == {0, Dollars(100), Dollars(1000)}
IrrDownPayments == {0, Dollars(100)}

IrrYears == {[CashFlow |-> cf, EquityAtSale |-> eq] : cf \in IrrCashFlows, eq \in IrrEquities}

RECURSIVE SeqsOf(_, _)
SeqsOf(S, n) ==
    IF n = 0 THEN {<<>>}
    ELSE {Append(q, x) : q \in SeqsOf(S, n - 1), x \in S}

IrrProperty(dp) ==
    [Units |-> <<>>,
     Financial |-> [AskingPrice |-> 0, PurchasePrice |-> 0, DownPayment |-> dp,
                    LoanAmount |-> 0, InterestRate |-> 0, LoanTermYears |-> Term30Years,
                    Expenses |-> NoExpenses]]

InitIRR ==
    /\ p \in {IrrProperty(dp) : dp \in IrrDownPayments}
    /\ p0 = p
    /\ before = p
    /\ last = NoCall
    /\ prev = NoCall
    /\ calls = 0
    /\ NoWaitGroup
    /\ NoStore
    /\ irr \in {[op |-> "input", projections |-> pr, holdingYears |-> h] :
                  pr \in UNION {SeqsOf(IrrYears, n) : n \in 0..MaxIrrYears},
                  h \in 1..(MaxIrrYears + 1)}

CallCalculateIRR ==
    /\ irr.op = "input"
    /\ irr' = [op |-> "CalculateIRR",
               projections |-> irr.projections,
               holdingYears |-> irr.holdingYears,
               out |-> CalculateIRR(p, irr.projections, irr.holdingYears)]
    /\ UNCHANGED <<p, p0, before, last, prev, calls, w, producer, tasks, waiters, store, callers>>

NextIRR == CallCalculateIRR

SpecIRR == InitIRR /\ [][NextIRR]_vars

----------------------------------------------------------------------------
(* State machine of the Financial block alone: a caller applying          *)
(* Normalize and the setters of the block to a property whose fields were *)
(* set one by one (Purchase, WithDownPayment, SetFinancials), so that a   *)
(* down payment can be present without a purchase price                   *)

MaxSetterCalls == 2

SetterPrices == {0 - Dollars(200), 0, Dollars(200), Dollars(200) + HalfDollar}
SetterDownPayments == {0, Dollars(50), Dollars(200)}
SetterLoanAmounts == {0, Dollars(150)}
SetterAmounts == {0, Dollars(10)}
SetterPercentages == {0 - 10, 0, 25, 100, 150}

SetterProperty(price, dp, loan) ==
    [Units |-> <<>>,
     Financial |-> [AskingPrice |-> price, PurchasePrice |-> price, DownPayment |-> dp,
                    LoanAmount |-> loan, InterestRate |-> RateOf(1),
                    LoanTermYears |-> Term30Years,
                    Expenses |-> [NoExpenses EXCEPT !.PMI = Dollars(1)]]]

InitFin ==
    /\ p \in {SetterProperty(price, dp, loan) : price \in SetterPrices,
                  dp \in SetterDownPayments, loan \in SetterLoanAmounts}
    /\ p0 = p
    /\ before = p
    /\ last = NoCall
    /\ prev = NoCall
    /\ calls = 0
    /\ irr = IrrIdle
    /\ NoWaitGroup
    /\ NoStore

CallNormalize ==
    /\ calls < MaxSetterCalls
    /\ Called("Normalize", [panicked |-> FALSE],
              [p EXCEPT !.Financial = Normalize(p.Financial)])

CallSetExpenses ==
    /\ calls < MaxSetterCalls
    /\ \E taxes \in SetterAmounts, insurance \in SetterAmounts,
          utilities \in SetterAmounts, repairs \in SetterAmounts :
          Called("SetExpenses",
                 [panicked |-> FALSE, taxes |-> taxes, insurance |-> insurance,
                  utilities |-> utilities, repairs |-> repairs],
                 [p EXCEPT !.Financial =
                     SetExpenses(p.Financial, taxes, insurance, utilities, repairs)])

CallSetLoanAmountPercentage ==
    /\ calls < MaxSetterCalls
    /\ \E percentage \in SetterPercentages :
          Called("SetLoanAmountPercentage",
                 [panicked |-> SetLoanAmountPercentagePanics(percentage),
                  percentage |-> percentage],
                 [p EXCEPT !.Financial = SetLoanAmountPercentage(p.Financial, percentage)])

CallWithDownPaymentPercent ==
    /\ calls < MaxSetterCalls
    /\ \E percent \in SetterPercentages :
          Called("WithDownPaymentPercent",
                 [panicked |-> FALSE, percentage |-> percent],
                 WithDownPaymentPercent(p, percent))

NextFin ==
    \/ CallNormalize
    \/ CallSetExpenses
    \/ CallSetLoanAmountPercentage
    \/ CallWithDownPaymentPercent

SpecFin == InitFin /\ [][NextFin]_vars

----------------------------------------------------------------------------
(* Properties of the scenario engine and of the full analysis (Spec)      *)

(* C1: when rent exceeds expenses and the price is not negative, a        *)
(* Scenario whose down payment is the value FindBreakEvenDownPayment      *)
(* returned (the property's own rate and term, rent multiplier 1) has a   *)
(* monthly cash flow that is not negative.                                 *)
C1_BreakEvenCashFlowNonNegative ==
    (/\ last.op = "FindBreakEvenDownPayment"
     /\ SumRent(before.Units) > TotalMonthly(before.Financial.Expenses)
     /\ before.Financial.PurchasePrice >= 0)
    => analyzeScenario(before, TestScenario(before, last.out.Value)).MonthlyCashFlow >= 0

(* C2 as stated: whenever FindBreakEvenDownPayment returns a value d      *)
(* other than the sentinel, the Scenario with down payment d - 100 has a  *)
(* negative monthly cash flow.                                             *)
C2_NegativeAtHundredBelow ==
    (/\ last.op = "FindBreakEvenDownPayment"
     /\ last.out.Value # Sentinel)
    => analyzeScenario(before, TestScenario(before, last.out.Value - Dollars(100))).MonthlyCashFlow < 0

(* C2 amended: whenever FindBreakEvenDownPayment returns a value d above  *)
(* 101, the Scenario with down payment d - 101 is not cash-flow positive: *)
(* its monthly cash flow is at most zero.                                  *)
C2_NotPositiveBelowBracket ==
    (/\ last.op = "FindBreakEvenDownPayment"
     /\ last.out.Value > Dollars(101))
    => analyzeScenario(before, TestScenario(before, last.out.Value - Dollars(101))).MonthlyCashFlow <= 0

(* a search that rejected a midpoint and returned more than 101 *)
C2_Witness ==
    /\ last.op = "FindBreakEvenDownPayment"
    /\ last.out.Value > Dollars(101)
    /\ last.out.Low > 0
    /\ last.out.Evals >= 2

(* C3: of two Scenarios that differ only in their down payments           *)
(* d1 <= d2, both in [0, price], the second has a monthly mortgage no     *)
(* larger than the first, and is cash-flow positive when the first is.    *)
C3_OracleMonotonic ==
    (/\ last.op = "CompareScenarios"
     /\ \A i \in 1..2 :
           /\ last.out[i].Scenario = TestScenario(before, last.out[i].Scenario.DownPayment)
           /\ last.out[i].Scenario.DownPayment >= 0
           /\ last.out[i].Scenario.DownPayment <= before.Financial.PurchasePrice
     /\ last.out[1].Scenario.DownPayment <= last.out[2].Scenario.DownPayment)
    => /\ AnalyzeCashFlow(ModifiedProperty(before, last.out[2].Scenario)).MonthlyMortgage
            <= AnalyzeCashFlow(ModifiedProperty(before, last.out[1].Scenario)).MonthlyMortgage
       /\ last.out[1].IsPositive => last.out[2].IsPositive

(* C4: AnalyzeCashFlow(p) and Analyze(p) leave every field of p as it was *)
(* before the call, the down payment and the loan amount in particular.   *)
C4_AnalysisLeavesPropertyUnchanged ==
    last.op \in {"AnalyzeCashFlow", "Analyze"} => p = before

(* C5: CompareScenarios and FindBreakEvenDownPayment leave the base       *)
(* property as it was: the rents of its units and its Financial are the   *)
(* same after the call as before it.                                       *)
C5_ScenariosLeaveBaseUnchanged ==
    last.op \in {"CompareScenarios", "FindBreakEvenDownPayment"}
    => /\ p.Units = before.Units
       /\ p.Financial = before.Financial

(* scenarios evaluated on a base whose down payment is unset, one of them *)
(* overriding rate, term and rents                                         *)
C5_Witness ==
    /\ last.op = "CompareScenarios"
    /\ before.Financial.DownPayment = 0
    /\ before.Financial.PurchasePrice > 0
    /\ Len(before.Units) > 0
    /\ last.out[1].Scenario.DownPayment = 0
    /\ last.out[2].Scenario.RentMultiplier # MultScale

(* C6: Analyze(p) called twice in a row on the same property returns two  *)
(* records that are equal field by field, also when the down payment or   *)
(* the loan amount of p was unset.                                         *)
C6_AnalyzeTwiceEqual ==
    (last.op = "Analyze" /\ prev.op = "Analyze") => last.out = prev.out

(* two analyses in a row of a property built without a down payment *)
C6_Witness ==
    /\ last.op = "Analyze"
    /\ prev.op = "Analyze"
    /\ p0.Financial.DownPayment = 0
    /\ p0.Financial.LoanAmount = 0
    /\ p0.Financial.PurchasePrice > 0
    /\ last.out.CashFlow.DownPayment > 0

(* C7: the full analysis never divides by zero, and each ratio whose      *)
(* denominator is zero is zero: cap rate (price), cash-on-cash and yearly *)
(* cash-on-cash and IRR (down payment), GRM and break-even ratio (gross   *)
(* income), DSCR (annual mortgage).                                        *)
C7_DivisionGuard ==
    last.op = "Analyze"
    => LET a == last.out.CashFlow
       IN /\ ~last.out.Panicked
          /\ a.PurchasePrice = 0 => a.CapRate = 0
          /\ a.DownPayment = 0
                => /\ a.CashOnCash = 0
                   /\ \A i \in 1..Len(last.out.Projections) :
                         last.out.Projections[i].CashOnCash = 0
                   /\ last.out.IRR.FiveYearIRR = 0
                   /\ last.out.IRR.TenYearIRR = 0
          /\ a.AnnualGrossIncome = 0 => (a.GRM = 0 /\ a.BreakEvenRatio = 0)
          /\ a.AnnualMortgage = 0 => a.DSCR = 0

(* a full analysis of a property with no price, no down payment, no rent  *)
(* and no mortgage                                                          *)
C7_Witness ==
    /\ last.op = "Analyze"
    /\ last.out.CashFlow.PurchasePrice = 0
    /\ last.out.CashFlow.DownPayment = 0
    /\ last.out.CashFlow.AnnualGrossIncome = 0
    /\ last.out.CashFlow.AnnualMortgage = 0
    /\ Len(last.out.Projections) = DefaultProjectionConfig.Years

----------------------------------------------------------------------------
(* Properties of the projections (Spec)                                    *)

RECURSIVE Gcd(_, _)
Gcd(a, b) == IF b = 0 THEN a ELSE Gcd(b, a % b)

(* v = base * (1 + rate)^n, as an equality of fractions in lowest terms *)
IsCompounded(v, base, rate, n) ==
    v * ((GrowthScale \div Gcd(GrowthScale + rate, GrowthScale)) ^ n)
        = base * (((GrowthScale + rate) \div Gcd(GrowthScale + rate, GrowthScale)) ^ n)

(* C11: the rows of ProjectCashFlow are the years 1, 2, ..., N in order,  *)
(* and in year y the gross income is the base annual rent times           *)
(* (1 + rentGrowth)^(y-1), the expenses the base annual expenses times    *)
(* (1 + expenseGrowth)^(y-1) and the property value the purchase price    *)
(* times (1 + appreciation)^(y-1); year 1 carries the base values.        *)
C11_GrowthFromYearTwo ==
    last.op = "ProjectCashFlow"
    => LET config == last.out.Config
           rows == last.out.Rows
       IN /\ Len(rows) = config.Years
          /\ \A y \in 1..Len(rows) :
                /\ rows[y].Year = y
                /\ IsCompounded(rows[y].GrossIncome, SumRent(before.Units) * 12,
                                config.RentGrowthRate, y - 1)
                /\ IsCompounded(rows[y].Expenses, TotalYearly(before.Financial.Expenses),
                                config.ExpenseGrowthRate, y - 1)
                /\ IsCompounded(rows[y].PropertyValue, before.Financial.PurchasePrice,
                                config.AppreciationRate, y - 1)
          /\ rows[1].GrossIncome = SumRent(before.Units) * 12
          /\ rows[1].Expenses = TotalYearly(before.Financial.Expenses)
          /\ rows[1].PropertyValue = before.Financial.PurchasePrice

(* three projected years of a property with rent, expenses and a price,   *)
(* each growing at a rate of its own                                        *)
C11_Witness ==
    /\ last.op = "ProjectCashFlow"
    /\ Len(last.out.Rows) = 3
    /\ last.out.Config.RentGrowthRate > 0
    /\ last.out.Config.ExpenseGrowthRate > last.out.Config.RentGrowthRate
    /\ last.out.Rows[3].GrossIncome > last.out.Rows[2].GrossIncome
    /\ last.out.Rows[2].GrossIncome > last.out.Rows[1].GrossIncome
    /\ last.out.Rows[3].Expenses > last.out.Rows[1].Expenses
    /\ last.out.Rows[3].PropertyValue > 0

(* The principal column of the schedule summed as it stands (section 4.1  *)
(* of the specification): s holds the number of rows so far, the balance  *)
(* after them and the sum of their principal.                              *)
PrincipalRow(s, M, r) ==
    [rows |-> s.rows + 1,
     balance |-> s.balance - (M - MulDiv(s.balance, r, RateScale)),
     sum |-> s.sum + (M - MulDiv(s.balance, r, RateScale))]

RECURSIVE PrincipalRows(_, _, _, _)
PrincipalRows(s, M, r, n) ==
    IF s.rows >= n THEN s ELSE PrincipalRows(PrincipalRow(s, M, r), M, r, n)

(* the column summed through row n, twelve rows at a time *)
RECURSIVE PrincipalYears(_, _, _, _)
PrincipalYears(s, M, r, n) ==
    IF s.rows >= n THEN s
    ELSE PrincipalYears(PrincipalRows(s, M, r, MinI(n, s.rows + 12)), M, r, n)

(* the sum of the principal column over the rows 1..n of the schedule of  *)
(* the loan l                                                               *)
PrincipalColumnSum(l, n) ==
    PrincipalYears([rows |-> 0, balance |-> LoanAmount(l), sum |-> 0],
                   AbsI(MonthlyPayment(l)), l.InterestRate \div 12, n).sum

(* C12: in every projected year Y that the schedule covers, PrincipalPaid *)
(* is the sum of the principal column over the rows 1..12Y and            *)
(* LoanBalance is the principal of the loan the schedule amortizes minus  *)
(* PrincipalPaid.                                                           *)
C12_BalanceFromSchedule ==
    last.op = "ProjectCashFlow"
    => \A Y \in 1..Len(last.out.Rows) :
          12 * Y <= ScheduleLen(Loan(before.Financial))
          => /\ last.out.Rows[Y].PrincipalPaid
                   = PrincipalColumnSum(Loan(before.Financial), 12 * Y)
             /\ last.out.Rows[Y].LoanBalance
                   = LoanAmount(Loan(before.Financial)) - last.out.Rows[Y].PrincipalPaid

----------------------------------------------------------------------------
(* Properties of the Financial block and its setters (SpecFin)            *)

(* the fields of the Financial block that Normalize never writes *)
SameOtherFields(a, b) ==
    /\ a.AskingPrice = b.AskingPrice
    /\ a.PurchasePrice = b.PurchasePrice
    /\ a.InterestRate = b.InterestRate
    /\ a.LoanTermYears = b.LoanTermYears
    /\ a.Expenses = b.Expenses

(* what the normalization defaults require of the block a that Normalize  *)
(* makes of the block b: an unset down payment becomes a fifth of the     *)
(* price, an unset loan amount becomes price minus the down payment a     *)
(* holds, and every field that was set is kept                            *)
DefaultsApplied(a, b) ==
    /\ b.DownPayment = 0 => 5 * a.DownPayment = b.PurchasePrice
    /\ b.DownPayment # 0 => a.DownPayment = b.DownPayment
    /\ b.LoanAmount = 0 => a.LoanAmount = b.PurchasePrice - a.DownPayment
    /\ b.LoanAmount # 0 => a.LoanAmount = b.LoanAmount
    /\ SameOtherFields(a, b)

C16_TotalYearlyIsSum ==
    last.op = "SetExpenses"
    => TotalYearly(p.Financial.Expenses)
          = last.out.taxes + last.out.insurance + last.out.utilities + last.out.repairs

(* C18: a percentage outside [0, 100] passed to SetLoanAmountPercentage   *)
(* or to WithDownPaymentPercent is rejected at once, and the Financial    *)
(* block is exactly as it was before the call.                             *)
C18_PercentageRejected ==
    /\ last.op \in {"SetLoanAmountPercentage", "WithDownPaymentPercent"}
    /\ last.out.percentage < 0 \/ last.out.percentage > 100
    => /\ last.out.panicked
       /\ p.Financial = before.Financial

----------------------------------------------------------------------------
(* State machine of package financing alone: a caller constructing a loan *)
(* with NewLoan from arguments drawn from bounded sets and then reading   *)
(* its monthly payment and the totals of its amortization schedule.  p is *)
(* the argument list, last the last call and what it returned.            *)

MaxLoanPriceIdx == 2

LoanHomePrices == {200 * i : i \in 0..MaxLoanPriceIdx}
LoanDownPayments == {0, 40}
(* the interestRate argument, denominator PercentScale: 0, 5, 6 and 500 *)
LoanRateArguments == {0, 5 * PercentScale, 6 * PercentScale, 500 * PercentScale}
(* the years argument: the four LoanTerm constants and LoanTerm(30) *)
LoanTermArguments == LoanTerms \cup {30}
LoanTolerances == {0, HalfDollar}

(* rates up to which the model computes a schedule (the powers of 1 + r   *)
(* stay within the integers the model uses)                                *)
MaxScheduleRate == 6 * PercentScale

InitLoan ==
    /\ p \in [homePrice : LoanHomePrices, downPayment : LoanDownPayments,
               interestRate : LoanRateArguments, years : LoanTermArguments,
               roundingErrorTolerance : LoanTolerances]
    /\ p0 = p
    /\ before = p
    /\ last = NoCall
    /\ prev = NoCall
    /\ calls = 0
    /\ irr = IrrIdle
    /\ NoWaitGroup
    /\ NoStore

CallNewLoan ==
    /\ calls = 0
    /\ Called("NewLoan",
              IF NewLoanPanics(p.years) THEN [panicked |-> TRUE]
              ELSE [panicked |-> FALSE,
                    loan |-> NewLoan(p.homePrice, p.downPayment, p.interestRate, p.years),
                    String |-> String(NewInterestRate(p.interestRate))],
              p)

(* Loan.GetTotalPrincipal: the principal column summed over all rows *)
GetTotalPrincipal(l) == PrincipalColumnSum(l, ScheduleLen(l))

(* Loan.GetTotalInterest: the interest column summed over all rows; every *)
(* row's interest is the payment minus the row's principal                 *)
GetTotalInterest(l, payment, totalPrincipal) ==
    (ScheduleLen(l) * payment) - totalPrincipal

LoanTotals(l, payment, totalPrincipal) ==
    [loan |-> l,
     MonthlyPayment |-> payment,
     TotalPrincipal |-> totalPrincipal,
     TotalInterest |-> GetTotalInterest(l, payment, totalPrincipal)]

CallTotals ==
    /\ last.op = "NewLoan"
    /\ ~last.out.panicked
    /\ p.interestRate <= MaxScheduleRate
    /\ Called("Totals",
              LoanTotals(last.out.loan, MonthlyPayment(last.out.loan),
                         GetTotalPrincipal(last.out.loan)),
              p)

NextLoan ==
    \/ CallNewLoan
    \/ CallTotals

SpecLoan == InitLoan /\ [][NextLoan]_vars

----------------------------------------------------------------------------
(* Properties of the loan and its schedule (SpecLoan)                     *)

(* the resolution of the model's schedule: the amounts of a row are held  *)
(* to one money unit, and an error of a unit in the payment or in a row's *)
(* interest grows with the balance over the rows that follow              *)
ScheduleResolution == Unit \div 4

(* C14: for every valid loan (principal not negative, a term NewLoan      *)
(* accepts) the principal column of the schedule sums to the loan         *)
(* principal, home price minus down payment, to within the rounding       *)
(* error tolerance the loan was constructed with.                          *)
C14_PrincipalColumnSums ==
    /\ last.op = "Totals"
    /\ LoanAmount(last.out.loan) >= 0
    => AbsI(last.out.TotalPrincipal - LoanAmount(last.out.loan))
          <= before.roundingErrorTolerance + ScheduleResolution

(* C15: for a loan with interest rate 0 and n = years * 12 > 0 periods    *)
(* the monthly payment is principal / n and the total interest is zero.   *)
C15_ZeroRatePayment ==
    /\ last.op = "Totals"
    /\ last.out.loan.InterestRate = 0
    /\ ScheduleLen(last.out.loan) > 0
    => /\ last.out.MonthlyPayment
             = MulDiv(LoanAmount(last.out.loan), 1, ScheduleLen(last.out.loan))
       /\ last.out.TotalInterest = 0

(* C17: NewLoan called with rate 500 and term 30 constructs a loan whose  *)
(* interest rate prints as "5%" and whose TermYears is 30.                 *)
C17_BasisPointsAndYears ==
    /\ last.op = "NewLoan"
    /\ before.interestRate = 500 * PercentScale
    /\ before.years = 30
    => /\ ~last.out.panicked
       /\ last.out.String = <<5, "%">>
       /\ last.out.loan.TermYears = 30

----------------------------------------------------------------------------
(* Properties of the IRR solver (SpecIRR)                                  *)

(* C9: when NPV(-0.99) and NPV(2.00) have opposite signs, CalculateIRR    *)
(* returns 100 * r for a rate r that is the midpoint of a bracket         *)
(* [low, high], where either |NPV(r)| < 0.0001, or the bracket is less    *)
(* than 0.0001 wide and the NPVs at its end points have opposite signs.   *)
C9_BisectionPostcondition ==
    (/\ irr.op = "CalculateIRR"
     /\ p.Financial.DownPayment # 0
     /\ irr.holdingYears <= Len(irr.projections)
     /\ LET cashFlows == CashFlows(p.Financial.DownPayment, irr.projections, irr.holdingYears)
        IN SignI(calculateNPV(cashFlows, IrrLow)) * SignI(calculateNPV(cashFlows, IrrHigh)) = 0 - 1)
    => LET cashFlows == CashFlows(p.Financial.DownPayment, irr.projections, irr.holdingYears)
           r == irr.out.Mid
       IN /\ irr.out.Kind = "bisect"
          /\ irr.out.Value = AsPercent(r)
          /\ r = (irr.out.Low + irr.out.High) \div 2
          /\ IrrLow <= irr.out.Low /\ irr.out.Low <= irr.out.High /\ irr.out.High <= IrrHigh
          /\ \/ LessThanTolerance(AbsI(calculateNPV(cashFlows, r)), Unit)
             \/ /\ LessThanTolerance(irr.out.High - irr.out.Low, IrrScale)
                /\ SignI(calculateNPV(cashFlows, irr.out.Low))
                      * SignI(calculateNPV(cashFlows, irr.out.High)) = 0 - 1

(* a bisection that ran until the bracket was narrow, the NPV at its      *)
(* midpoint still above the tolerance                                      *)
C9_Witness ==
    /\ irr.op = "CalculateIRR"
    /\ irr.out.Kind = "bisect"
    /\ irr.out.Iterations > 1
    /\ ~LessThanTolerance(AbsI(irr.out.NpvMid), Unit)
    /\ irr.out.Low > IrrLow
    /\ irr.out.High < IrrHigh

(* C10: when NPV(-0.99) and NPV(2.00) have the same sign, CalculateIRR    *)
(* takes no bisection step and returns the sum of all cash-flow entries   *)
(* (the initial -downPayment and the sale proceeds included), divided by  *)
(* the down payment and by the holding years, times 100.                   *)
C10_FallbackEstimate ==
    (/\ irr.op = "CalculateIRR"
     /\ p.Financial.DownPayment # 0
     /\ irr.holdingYears <= Len(irr.projections))
    => LET dp == p.Financial.DownPayment
           h == irr.holdingYears
           entries == [i \in 1..(h + 1) |->
                          IF i = 1 THEN 0 - dp
                          ELSE irr.projections[i - 1].CashFlow
                               + (IF i = h + 1 THEN irr.projections[h].EquityAtSale ELSE 0)]
           sameSign == SignI(calculateNPV(entries, IrrLow)) = SignI(calculateNPV(entries, IrrHigh))
       IN sameSign
          => /\ irr.out.Kind = "fallback"
             /\ irr.out.Iterations = 0
             /\ irr.out.Value = MulDiv(MulDiv(SumSeq(entries), PctScale, dp), 1, h) * 100

(* a fallback estimate over two years whose NPV is zero at both ends of   *)
(* the bracket                                                              *)
C10_Witness ==
    /\ irr.op = "CalculateIRR"
    /\ irr.out.Kind = "fallback"
    /\ irr.holdingYears = 2
    /\ calculateNPV(CashFlows(p.Financial.DownPayment, irr.projections, 2), IrrLow) = 0
    /\ calculateNPV(CashFlows(p.Financial.DownPayment, irr.projections, 2), IrrHigh) = 0
    /\ irr.out.Value = 99 * PctScale

----------------------------------------------------------------------------
(* Part 2: package waitgroup.  LimitWaitGroup wraps a sync.WaitGroup      *)
(* counter (wg) and a buffered channel (limit) whose capacity is the      *)
(* concurrency limit.  w holds the counter, the number of elements in the *)
(* channel and its capacity.                                               *)

MaxLimit == 2
MaxTasks == 3
MaxWaiters == 2

(* NewLimitWaitGroup(limit): a zero counter and make(chan struct{}, limit) *)
NewLimitWaitGroup(limit) == [wg |-> 0, limit |-> 0, cap |-> limit]

(* LimitWaitGroup.Limit: cap(w.limit) *)
Limit(lwg) == lwg.cap

(* a send that never waits for room *)
ChanCanSend_Unbounded(lwg) == TRUE

(* w.limit <- struct{}{} proceeds while the buffer has room; with          *)
(* capacity 0 it needs a receiver, and a receiver exists only after an    *)
(* Add has returned                                                        *)
ChanCanSend(lwg) == lwg.limit < lwg.cap

(* a receive that never proceeds *)
ChanCanReceive_Never(lwg) == FALSE

(* <-w.limit proceeds while the buffer holds an element *)
ChanCanReceive(lwg) == lwg.limit > 0

(* sync.WaitGroup.Wait returns once the counter is zero *)
WaitReturns(lwg) == lwg.wg = 0

(* The program of the package's tests: a producer runs                     *)
(*     for i := 0; i < n; i++ { wg.Add(1); go func() { defer wg.Done() ... }() } *)
(* and then calls wg.Wait(); after the loop it also starts the goroutines *)
(* that only call wg.Wait().  producer.pc is the producer's position:     *)
(* "add" before the send of Add, "wgadd" before w.wg.Add, "go" when Add   *)
(* has returned and the task is not started yet, "wait" in Wait, "done"   *)
(* when Wait has returned.  A task is "idle" before it is started,        *)
(* "running" until it calls Done, "release" between w.wg.Done() and the   *)
(* receive from the channel, "finished" after Done has returned.          *)

InitWG ==
    /\ \E limit \in 0..MaxLimit : w = NewLimitWaitGroup(limit)
    /\ \E n \in 0..MaxTasks :
          /\ producer = [pc |-> IF n = 0 THEN "wait" ELSE "add", started |-> 0, n |-> n]
          /\ tasks = [t \in 1..n |-> "idle"]
    /\ \E k \in 0..MaxWaiters : waiters = [i \in 1..k |-> "idle"]
    /\ p = NoCall
    /\ p0 = NoCall
    /\ before = NoCall
    /\ last = NoCall
    /\ prev = NoCall
    /\ calls = 0
    /\ irr = IrrIdle
    /\ NoStore

(* Add(1), first statement: the send on the channel *)
AddSend ==
    /\ producer.pc = "add"
    /\ ChanCanSend(w)
    /\ w' = [w EXCEPT !.limit = @ + 1]
    /\ producer' = [producer EXCEPT !.pc = "wgadd"]
    /\ UNCHANGED <<tasks, waiters, p, p0, before, last, prev, calls, irr, store, callers>>

(* Add(1), second statement: w.wg.Add(delta); Add returns *)
AddCount ==
    /\ producer.pc = "wgadd"
    /\ w' = [w EXCEPT !.wg = @ + 1]
    /\ producer' = [producer EXCEPT !.pc = "go"]
    /\ UNCHANGED <<tasks, waiters, p, p0, before, last, prev, calls, irr, store, callers>>

(* the go statement that starts the task, and the loop test *)
StartTask ==
    /\ producer.pc = "go"
    /\ tasks' = [tasks EXCEPT ![producer.started + 1] = "running"]
    /\ producer' = [producer EXCEPT !.started = @ + 1,
                        !.pc = IF producer.started + 1 = producer.n THEN "wait" ELSE "add"]
    /\ UNCHANGED <<w, waiters, p, p0, before, last, prev, calls, irr, store, callers>>

(* the producer's Wait returns *)
ProducerWait ==
    /\ producer.pc = "wait"
    /\ WaitReturns(w)
    /\ producer' = [producer EXCEPT !.pc = "done"]
    /\ UNCHANGED <<w, tasks, waiters, p, p0, before, last, prev, calls, irr, store, callers>>

(* Done, first statement: w.wg.Done() *)
DoneCount(t) ==
    /\ t \in DOMAIN tasks
    /\ tasks[t] = "running"
    /\ w' = [w EXCEPT !.wg = @ - 1]
    /\ tasks' = [tasks EXCEPT ![t] = "release"]
    /\ UNCHANGED <<producer, waiters, p, p0, before, last, prev, calls, irr, store, callers>>

(* Done, second statement: the receive from the channel; Done returns *)
DoneReceive(t) ==
    /\ t \in DOMAIN tasks
    /\ tasks[t] = "release"
    /\ ChanCanReceive(w)
    /\ w' = [w EXCEPT !.limit = @ - 1]
    /\ tasks' = [tasks EXCEPT ![t] = "finished"]
    /\ UNCHANGED <<producer, waiters, p, p0, before, last, prev, calls, irr, store, callers>>

(* a waiting goroutine, started after the producer's loop, calls Wait *)
WaiterCall(k) ==
    /\ k \in DOMAIN waiters
    /\ waiters[k] = "idle"
    /\ producer.pc \in {"wait", "done"}
    /\ waiters' = [waiters EXCEPT ![k] = "waiting"]
    /\ UNCHANGED <<w, producer, tasks, p, p0, before, last, prev, calls, irr, store, callers>>

(* its Wait returns *)
WaiterReturn(k) ==
    /\ k \in DOMAIN waiters
    /\ waiters[k] = "waiting"
    /\ WaitReturns(w)
    /\ waiters' = [waiters EXCEPT ![k] = "returned"]
    /\ UNCHANGED <<w, producer, tasks, p, p0, before, last, prev, calls, irr, store, callers>>

ProducerStep == AddSend \/ AddCount \/ StartTask \/ ProducerWait

TaskStep(t) == DoneCount(t) \/ DoneReceive(t)

WaiterStep(k) == WaiterCall(k) \/ WaiterReturn(k)

NextWG ==
    \/ AddSend
    \/ AddCount
    \/ StartTask
    \/ ProducerWait
    \/ \E t \in 1..MaxTasks : DoneCount(t)
    \/ \E t \in 1..MaxTasks : DoneReceive(t)
    \/ \E k \in 1..MaxWaiters : WaiterCall(k)
    \/ \E k \in 1..MaxWaiters : WaiterReturn(k)

SpecWG == InitWG /\ [][NextWG]_vars

(* The Go scheduler runs every goroutine that is able to run: a goroutine *)
(* whose next statement stays possible eventually executes it.            *)
SpecWGFair ==
    /\ InitWG
    /\ [][NextWG]_vars
    /\ WF_vars(ProducerStep)
    /\ \A t \in 1..MaxTasks : WF_vars(TaskStep(t))
    /\ \A k \in 1..MaxWaiters : WF_vars(WaiterStep(k))

----------------------------------------------------------------------------
(* Properties of the wait group (SpecWG, SpecWGFair)                      *)

(* the tasks for which Add has returned *)
AddReturned == producer.started + (IF producer.pc = "go" THEN 1 ELSE 0)

(* the tasks that have called Done *)
DoneCalled == {t \in DOMAIN tasks : tasks[t] \in {"release", "finished"}}

(* C19: in every reachable state the number of tasks for which Add has    *)
(* returned and Done has not yet been called is at most the limit given   *)
(* at construction.                                                        *)
C19_ConcurrencyLimit ==
    AddReturned - Cardinality(DoneCalled) <= Limit(w)

C19_Witness ==
    /\ Limit(w) = 1
    /\ producer.n > 1
    /\ producer.pc = "add"
    /\ producer.started = 1
    /\ tasks[1] = "running"
    /\ ~ChanCanSend(w)

AnyWaitReturned ==
    producer.pc = "done" \/ \E k \in DOMAIN waiters : waiters[k] = "returned"

AllWaitsReturned ==
    producer.pc = "done" /\ \A k \in DOMAIN waiters : waiters[k] = "returned"

AllDoneCalled == DoneCalled = 1..producer.n

(* C20 (as stated): under fair scheduling every Wait, the producer's and  *)
(* those of the waiting goroutines, eventually returns, and whenever a    *)
(* Wait has returned all n tasks have called Done.                         *)
C20_WaitReturnsAfterAllDone ==
    [](AnyWaitReturned => AllDoneCalled) /\ <>AllWaitsReturned

----------------------------------------------------------------------------
(* The producer of TestLimitWaitGroup_RaceMultipleAdds: batches of        *)
(*     wg.Add(delta); for j := 0; j < delta; j++ { go func() { defer wg.Done() ... }() } *)
(* and then wg.Wait().  producer.sent counts the sends the current Add    *)
(* has made.                                                               *)

MaxDelta == 3
MaxBatches == 2

InitBatch ==
    /\ \E limit \in 0..MaxLimit : w = NewLimitWaitGroup(limit)
    /\ \E delta \in 1..MaxDelta, batches \in 1..MaxBatches :
          /\ producer = [pc |-> "add", started |-> 0, n |-> delta * batches,
                         delta |-> delta, sent |-> 0]
          /\ tasks = [t \in 1..(delta * batches) |-> "idle"]
    /\ waiters = <<>>
    /\ p = NoCall
    /\ p0 = NoCall
    /\ before = NoCall
    /\ last = NoCall
    /\ prev = NoCall
    /\ calls = 0
    /\ irr = IrrIdle
    /\ NoStore

(* Add(delta): one iteration of the loop of sends *)
BatchSend ==
    /\ producer.pc = "add"
    /\ ChanCanSend(w)
    /\ w' = [w EXCEPT !.limit = @ + 1]
    /\ producer' = [producer EXCEPT !.sent = @ + 1,
                        !.pc = IF producer.sent + 1 = producer.delta THEN "wgadd" ELSE "add"]
    /\ UNCHANGED <<tasks, waiters, p, p0, before, last, prev, calls, irr, store, callers>>

(* Add(delta): w.wg.Add(delta); Add returns *)
BatchCount ==
    /\ producer.pc = "wgadd"
    /\ w' = [w EXCEPT !.wg = @ + producer.delta]
    /\ producer' = [producer EXCEPT !.pc = "go", !.sent = 0]
    /\ UNCHANGED <<tasks, waiters, p, p0, before, last, prev, calls, irr, store, callers>>

(* one go statement of the inner loop, and the loop tests *)
BatchStart ==
    /\ producer.pc = "go"
    /\ tasks' = [tasks EXCEPT ![producer.started + 1] = "running"]
    /\ producer' = [producer EXCEPT !.started = @ + 1,
                        !.pc = IF producer.started + 1 = producer.n THEN "wait"
                               ELSE IF (producer.started + 1) % producer.delta = 0 THEN "add"
                               ELSE "go"]
    /\ UNCHANGED <<w, waiters, p, p0, before, last, prev, calls, irr, store, callers>>

BatchProducerStep == BatchSend \/ BatchCount \/ BatchStart \/ ProducerWait

NextBatch ==
    \/ BatchSend
    \/ BatchCount
    \/ BatchStart
    \/ ProducerWait
    \/ \E t \in 1..(MaxDelta * MaxBatches) : DoneCount(t)
    \/ \E t \in 1..(MaxDelta * MaxBatches) : DoneReceive(t)

SpecBatchFair ==
    /\ InitBatch
    /\ [][NextBatch]_vars
    /\ WF_vars(BatchProducerStep)
    /\ \A t \in 1..(MaxDelta * MaxBatches) : WF_vars(TaskStep(t))

(* C21 (as stated): for every delta >= 1 each Add(delta) followed by the  *)
(* start of delta tasks eventually returns, so the producer's Wait        *)
(* eventually returns, and when it has returned every task has finished   *)
(* its work and called Done.                                               *)
C21_BatchAddReturns ==
    [](producer.pc = "done" => AllDoneCalled) /\ <>(producer.pc = "done")

(* C21 (amended): the same for every delta from 1 up to the limit; an     *)
(* Add(delta) with delta above the limit never returns.                    *)
C21_BatchAddWithinLimit ==
    /\ [](producer.pc = "done" => AllDoneCalled)
    /\ <>(producer.pc = "done" \/ producer.delta > Limit(w))
    /\ [](producer.delta > Limit(w) => producer.pc = "add")

C21_Witness ==
    /\ producer.pc = "done"
    /\ producer.delta = 2
    /\ Limit(w) = 2
    /\ producer.n = 4
    /\ AllDoneCalled

(* C22: a wait group requested with a limit of zero or less is a standard *)
(* unlimited wait group: the send of its Add never has to wait.            *)
C22_NonPositiveLimitIsUnlimited ==
    Limit(w) <= 0 /\ producer.pc = "add" => ChanCanSend(w)

----------------------------------------------------------------------------
(* Part 3: auth-service.  store is the database: the users table with its *)
(* UNIQUE username and email columns and AUTOINCREMENT id, and the        *)
(* user_metadata table with UNIQUE(user_id, key).  callers holds one      *)
(* record per goroutine calling into the service: the call it makes, its  *)
(* position pc in the code of that call, the error err it returns ("" for *)
(* nil), the id of the user it created (0 for none) and, for WithTx, what *)
(* it did with the transaction.  Every SQL statement is one step.         *)

MaxCallers == 2

ErrInvalidInput == "invalid input"
ErrUserAlreadyExists == "user already exists"

(* an error that wraps the driver's error and matches no sentinel *)
ErrWrapped == "wrapped"

(* Client after NewClient: the migrated, empty database *)
NewClient == [users |-> {}, metadata |-> {}, nextID |-> 1]

NoTx == [begun |-> FALSE, fn |-> "none", fnCalls |-> 0, commits |-> 0, rollbacks |-> 0]

CreateUserInputs ==
    {[Username |-> "", Password |-> "pw", Email |-> "ann@x"],
     [Username |-> "ann", Password |-> "pw", Email |-> "ann@x"],
     [Username |-> "ann", Password |-> "pw", Email |-> "bob@x"],
     [Username |-> "bob", Password |-> "pw", Email |-> "ann@x"]}

MetadataMaps ==
    {{}, {[Key |-> "k", Value |-> "v"]},
     {[Key |-> "k", Value |-> "v"], [Key |-> "", Value |-> "v"]}}

Calls ==
    {[op |-> "CreateUser", input |-> i, meta |-> {}, pc |-> "validate", err |-> "",
      userID |-> 0, tx |-> NoTx] : i \in CreateUserInputs}
    \cup {[op |-> "CreateUserWithMetadata", input |-> i, meta |-> m, pc |-> "validate",
           err |-> "", userID |-> 0, tx |-> NoTx] :
             i \in {j \in CreateUserInputs : j.Email = "ann@x" /\ j.Username # ""},
             m \in MetadataMaps}
    \cup {[op |-> "WithTx", input |-> [Username |-> "", Password |-> "", Email |-> ""],
           meta |-> {}, pc |-> "begin", err |-> "", userID |-> 0, tx |-> NoTx]}

InitAuth ==
    /\ store = NewClient
    /\ \E n \in 1..MaxCallers : callers \in [1..n -> Calls]
    /\ p = NoCall
    /\ p0 = NoCall
    /\ before = NoCall
    /\ last = NoCall
    /\ prev = NoCall
    /\ calls = 0
    /\ irr = IrrIdle
    /\ NoWaitGroup

(* the queries UserExistsByUsername and UserExistsByEmail *)
UserExistsByUsername(st, username) == \E u \in st.users : u.username = username

UserExistsByEmail(st, email) == \E u \in st.users : u.email = email

Returns(c, err) ==
    /\ callers' = [callers EXCEPT ![c].pc = "done", ![c].err = err]
    /\ UNCHANGED <<store, p, p0, before, last, prev, calls, irr, w, producer, tasks, waiters>>

Goes(c, pc) ==
    /\ callers' = [callers EXCEPT ![c].pc = pc]
    /\ UNCHANGED <<store, p, p0, before, last, prev, calls, irr, w, producer, tasks, waiters>>

(* CreateUser: the test of the input for empty fields *)
Validate(c) ==
    /\ callers[c].pc = "validate"
    /\ IF callers[c].input.Username = "" \/ callers[c].input.Password = ""
            \/ callers[c].input.Email = ""
       THEN Returns(c, ErrInvalidInput)
       ELSE Goes(c, "username")

(* CreateUser: the username query and its test *)
CheckUsername(c) ==
    /\ callers[c].pc = "username"
    /\ IF UserExistsByUsername(store, callers[c].input.Username)
       THEN Returns(c, ErrUserAlreadyExists)
       ELSE Goes(c, "email")

(* CreateUser: the email query and its test *)
CheckEmail(c) ==
    /\ callers[c].pc = "email"
    /\ IF UserExistsByEmail(store, callers[c].input.Email)
       THEN Returns(c, ErrUserAlreadyExists)
       ELSE Goes(c, "insert")

(* CreateUser: the INSERT, which the UNIQUE constraints of the table make *)
(* fail when the username or the email is held; its error is returned     *)
(* wrapped in "failed to create user"                                      *)
InsertUser(c) ==
    /\ callers[c].pc = "insert"
    /\ IF UserExistsByUsername(store, callers[c].input.Username)
            \/ UserExistsByEmail(store, callers[c].input.Email)
       THEN Returns(c, ErrWrapped)
       ELSE /\ store' = [store EXCEPT
                            !.users = @ \cup {[id |-> store.nextID,
                                               username |-> callers[c].input.Username,
                                               email |-> callers[c].input.Email]},
                            !.nextID = @ + 1]
            /\ callers' = [callers EXCEPT ![c].userID = store.nextID,
                               ![c].pc = IF callers[c].meta = {} THEN "done" ELSE "meta"]
            /\ UNCHANGED <<p, p0, before, last, prev, calls, irr, w, producer, tasks, waiters>>

(* CreateUserWithMetadata: one iteration of the loop over the map, in the *)
(* order the map yields its entries; Metadata.Set rejects an empty key    *)
(* and otherwise upserts the entry                                         *)
SetMetadata(c) ==
    /\ callers[c].pc = "meta"
    /\ \E m \in callers[c].meta :
          IF m.Key = ""
          THEN Returns(c, ErrInvalidInput)
          ELSE /\ store' = [store EXCEPT !.metadata =
                               {e \in @ : ~(e.UserID = callers[c].userID /\ e.Key = m.Key)}
                               \cup {[UserID |-> callers[c].userID, Key |-> m.Key,
                                      Value |-> m.Value]}]
               /\ callers' = [callers EXCEPT ![c].meta = @ \ {m},
                                  ![c].pc = IF callers[c].meta = {m} THEN "done" ELSE "meta"]
               /\ UNCHANGED <<p, p0, before, last, prev, calls, irr, w, producer, tasks, waiters>>

(* WithTx: db.BeginTx, which may fail *)
BeginTx(c) ==
    /\ callers[c].pc = "begin"
    /\ \/ Returns(c, ErrWrapped)
       \/ /\ callers' = [callers EXCEPT ![c].tx.begun = TRUE, ![c].pc = "fn"]
          /\ UNCHANGED <<store, p, p0, before, last, prev, calls, irr, w, producer, tasks, waiters>>

(* WithTx: fn(tx), which returns nil, returns an error, or panics; a      *)
(* panic leaves WithTx at once                                             *)
RunFn(c) ==
    /\ callers[c].pc = "fn"
    /\ \E out \in {"nil", "error", "panic"} :
          callers' = [callers EXCEPT ![c].tx.fn = out, ![c].tx.fnCalls = @ + 1,
                         ![c].pc = CASE out = "nil" -> "commit"
                                     [] out = "error" -> "rollback"
                                     [] out = "panic" -> "panicked"]
    /\ UNCHANGED <<store, p, p0, before, last, prev, calls, irr, w, producer, tasks, waiters>>

(* WithTx: tx.Rollback after an error of fn; WithTx returns fn's error,   *)
(* or an error wrapping it when the rollback fails too                     *)
Rollback(c) ==
    /\ callers[c].pc = "rollback"
    /\ \E rbErr \in {"", ErrWrapped} :
          callers' = [callers EXCEPT ![c].tx.rollbacks = @ + 1, ![c].pc = "done",
                         ![c].err = IF rbErr # "" THEN ErrWrapped ELSE "fn error"]
    /\ UNCHANGED <<store, p, p0, before, last, prev, calls, irr, w, producer, tasks, waiters>>

(* WithTx: return tx.Commit() *)
Commit(c) ==
    /\ callers[c].pc = "commit"
    /\ \E err \in {"", ErrWrapped} :
          callers' = [callers EXCEPT ![c].tx.commits = @ + 1, ![c].pc = "done",
                         ![c].err = err]
    /\ UNCHANGED <<store, p, p0, before, last, prev, calls, irr, w, producer, tasks, waiters>>

NextAuth ==
    \E c \in DOMAIN callers :
        \/ Validate(c)
        \/ CheckUsername(c)
        \/ CheckEmail(c)
        \/ InsertUser(c)
        \/ SetMetadata(c)
        \/ BeginTx(c)
        \/ RunFn(c)
        \/ Rollback(c)
        \/ Commit(c)

SpecAuth == InitAuth /\ [][NextAuth]_vars

----------------------------------------------------------------------------
(* Properties of auth-service (SpecAuth)                                  *)

(* C23: in every interleaving of CreateUser calls, no two stored users    *)
(* share a username or an email, and a call with valid input that has     *)
(* returned without creating a user, which it does only when its username *)
(* or email is held, has returned an error that is ErrUserAlreadyExists.  *)
C23_DuplicateIsAlreadyExists ==
    /\ \A u1 \in store.users, u2 \in store.users :
          u1.username = u2.username \/ u1.email = u2.email => u1 = u2
    /\ \A c \in DOMAIN callers :
          /\ callers[c].op \in {"CreateUser", "CreateUserWithMetadata"}
          /\ callers[c].pc = "done"
          /\ callers[c].input.Username # ""
          /\ callers[c].userID = 0
          => callers[c].err = ErrUserAlreadyExists

(* C24: for every transaction WithTx has begun and left, exactly one of   *)
(* Commit and Rollback was invoked, Commit exactly when fn returned nil;  *)
(* when fn returned an error WithTx returns an error and has not          *)
(* committed; when BeginTx failed fn was not called.                       *)
C24_CommitOrRollback ==
    \A c \in DOMAIN callers :
        callers[c].op = "WithTx" /\ callers[c].pc \in {"done", "panicked"}
        => /\ callers[c].tx.begun
                 => callers[c].tx.commits + callers[c].tx.rollbacks = 1
           /\ callers[c].tx.commits = 1 <=> callers[c].tx.fn = "nil"
           /\ callers[c].tx.fn = "error"
                 => callers[c].err # "" /\ callers[c].tx.commits = 0
           /\ ~callers[c].tx.begun => callers[c].tx.fnCalls = 0

(* C30: whenever CreateUserWithMetadata has returned an error, the store  *)
(* holds neither the user of that call nor a metadata entry of that call. *)
C30_AllOrNothing ==
    \A c \in DOMAIN callers :
        /\ callers[c].op = "CreateUserWithMetadata"
        /\ callers[c].pc = "done"
        /\ callers[c].err # ""
        => /\ \A u \in store.users : u.id # callers[c].userID
           /\ \A e \in store.metadata : e.UserID # callers[c].userID

----------------------------------------------------------------------------
(* State machine of the fluent builder: a property made with New, AddUnit *)
(* and Loan, on which the caller chains Purchase and                      *)
(* WithDownPaymentPercent in any order and then runs the full analysis.   *)
(* last.out.log is the chain of calls made so far.                         *)

MaxBuilderCalls == 3

BuilderPrices == {Dollars(200), Dollars(200) + HalfDollar}
BuilderPercentages == {10, 25, 100}

(* New(name) with a zero Financial block, then AddUnit and Loan *)
New(units, rate) ==
    [Units |-> units,
     Financial |-> [AskingPrice |-> 0, PurchasePrice |-> 0, DownPayment |-> 0,
                    LoanAmount |-> 0, InterestRate |-> rate,
                    LoanTermYears |-> Term30Years, Expenses |-> NoExpenses]]

(* Property.Purchase(purchasePrice) without an asking price *)
Purchase(pp, purchasePrice) ==
    [pp EXCEPT !.Financial.PurchasePrice = purchasePrice,
               !.Financial.AskingPrice = purchasePrice]

(* Property.RunFullAnalysis: Normalize, then Analyze *)
RunFullAnalysis(pp) ==
    AnalyzeWithConfig([pp EXCEPT !.Financial = Normalize(pp.Financial)],
                      DefaultProjectionConfig)

InitBuilder ==
    /\ p \in {New(units, rate) : units \in UnitLists, rate \in Rates}
    /\ p0 = p
    /\ before = p
    /\ last = NoCall
    /\ prev = NoCall
    /\ calls = 0
    /\ irr = IrrIdle
    /\ NoWaitGroup
    /\ NoStore

Log == IF last.op = "none" THEN <<>> ELSE last.out.log

BuildPurchase ==
    /\ calls < MaxBuilderCalls - 1
    /\ \E purchasePrice \in BuilderPrices :
          Called("Purchase", [log |-> Append(Log, <<"Purchase", purchasePrice>>)],
                 Purchase(p, purchasePrice))

BuildWithDownPaymentPercent ==
    /\ calls < MaxBuilderCalls - 1
    /\ \E percent \in BuilderPercentages :
          Called("WithDownPaymentPercent",
                 [log |-> Append(Log, <<"WithDownPaymentPercent", percent>>)],
                 WithDownPaymentPercent(p, percent))

BuildRunFullAnalysis ==
    /\ calls < MaxBuilderCalls
    /\ last.op # "RunFullAnalysis"
    /\ Called("RunFullAnalysis",
              [log |-> Log, Panicked |-> RunFullAnalysis(p).Result.Panicked],
              RunFullAnalysis(p).After)

NextBuilder ==
    \/ BuildPurchase
    \/ BuildWithDownPaymentPercent
    \/ BuildRunFullAnalysis

SpecBuilder == InitBuilder /\ [][NextBuilder]_vars

----------------------------------------------------------------------------
(* Properties of the scenario engine, the full analysis and the builder   *)

(* the analysis of the modified property with the overrides taken as they *)
(* are given: the loan built from the purchase price and the scenario's   *)
(* down payment, rate and term, and the ratios of AnalyzeCashFlow on the  *)
(* Financial block analyzeScenario has built                               *)
ScenarioAsGiven(pp, scenario) ==
    LET mp == ModifiedProperty(pp, scenario)
        fin == mp.Financial
        loan == NewLoan(Int64(fin.PurchasePrice), Int64(fin.DownPayment),
                        InterestRatePercent(fin), fin.LoanTermYears)
    IN ScenarioResult(scenario,
                      CashFlowMetrics(CashFlowAmounts(SumRent(mp.Units), fin.Expenses,
                                                      AbsI(MonthlyPayment(loan))),
                                      fin))

(* C25: every ScenarioResult of CompareScenarios, a scenario with a down  *)
(* payment of 0 included, equals the cash-flow analysis of a loan of the  *)
(* purchase price less the scenario's down payment at the scenario's rate *)
(* and term with every rent multiplied, and its cash-on-cash has the      *)
(* scenario's down payment as denominator.                                 *)
C25_ScenarioOverridesAsGiven ==
    last.op = "CompareScenarios"
    => \A i \in 1..Len(last.out) :
          last.out[i] = ScenarioAsGiven(before, last.out[i].Scenario)

C27_BisectionReturnsInLoop ==
    irr.op = "CalculateIRR" /\ irr.out.Kind \notin {"zero", "fallback"}
    => /\ irr.out.Kind = "bisect"
       /\ irr.out.Iterations <= 16
       /\ irr.out.Iterations < IrrMaxIter
       /\ (0 - 99) * PctScale <= irr.out.Value
       /\ irr.out.Value <= 200 * PctScale

(* a bisection that returned in its 16th iteration, on the width test *)
C27_Witness ==
    /\ irr.op = "CalculateIRR"
    /\ irr.out.Kind = "bisect"
    /\ irr.out.Iterations = 16
    /\ ~LessThanTolerance(AbsI(irr.out.NpvMid), Unit)
    /\ LessThanTolerance(irr.out.High - irr.out.Low, IrrScale)

(* C28: in the record of the full analysis BreakEven.CanBreakEven is true *)
(* exactly when FindBreakEvenDownPayment did not return the sentinel -1,  *)
(* that is when the total monthly rent exceeds the total monthly          *)
(* expenses, whatever the purchase price, a price of 0 included.          *)
C28_CanBreakEvenIffNotSentinel ==
    last.op \in {"Analyze", "AnalyzeWithConfig"} /\ ~last.out.Panicked
    => /\ last.out.BreakEven.CanBreakEven
             <=> last.out.BreakEven.BreakEvenDownPayment # Sentinel
       /\ last.out.BreakEven.CanBreakEven
             <=> SumRent(last.out.Units) > TotalMonthly(before.Financial.Expenses)

(* C29: for a price P > 0 and a percentage k in (0, 100], Purchase(P)     *)
(* then WithDownPaymentPercent(k), and WithDownPaymentPercent(k) then     *)
(* Purchase(P), each followed by RunFullAnalysis, leave the same          *)
(* Financial block: down payment k% of P, loan amount P less the down     *)
(* payment.                                                                 *)
C29_BuilderOrderIndependent ==
    /\ last.op = "RunFullAnalysis"
    /\ ~last.out.Panicked
    /\ \E P \in BuilderPrices, k \in BuilderPercentages :
          \/ last.out.log = <<<<"Purchase", P>>, <<"WithDownPaymentPercent", k>>>>
          \/ last.out.log = <<<<"WithDownPaymentPercent", k>>, <<"Purchase", P>>>>
    => \E P \in BuilderPrices, k \in BuilderPercentages :
          /\ {last.out.log[1], last.out.log[2]}
                = {<<"Purchase", P>>, <<"WithDownPaymentPercent", k>>}
          /\ p.Financial =
                [p0.Financial EXCEPT !.PurchasePrice = P, !.AskingPrice = P,
                                     !.DownPayment = MulDiv(P, k, 100),
                                     !.LoanAmount = P - MulDiv(P, k, 100)]

====
